---- MODULE Spec2Model ----
(***************************************************************************)
(* Model of the SLAB allocator (src/src/allocator/slab.rs) and of the      *)
(* read-only FAT32 reader (src/src/file_system.rs and its shell facade     *)
(* src/src/file_system/interface.rs).                                      *)
(***************************************************************************)
EXTENDS Integers, Sequences, FiniteSets, Bags, TLC

(***************************************************************************)
(* Program constants of the allocator.                                     *)
(***************************************************************************)
PAGE_SIZE == 4096
MAX_SLAB_SIZE == 2048
MAX_CLASSES == 9
\* size_of::<ListNode>(): two pointers
SIZEOF_LISTNODE == 16
\* size_of::<Slab>(): ListNode (16) + s_mem (8) + free (4, padded to 8) + inuse (8)
SIZEOF_SLAB == 40
\* size_of::<BufCtl>(): a transparent u32
SIZEOF_BUFCTL == 4
\* align_of::<usize>()
ALIGNOF_USIZE == 8
\* BufCtl::END = BufCtl(u32::MAX), the all-ones index: no slab has that many
\* objects, and it is written -1 here (the same bits read as i32)
END == -1
\* null_mut()
NULL == 0
\* usize::BITS, the value of trailing_zeros(0)
USIZE_BITS == 64

\* Field offsets of the three list heads inside a #[repr(C)] Cache
OFF_FULL == 0
OFF_PARTIAL == SIZEOF_LISTNODE
OFF_FREE == 2 * SIZEOF_LISTNODE

CACHE_NAMES ==
    << "size-8", "size-16", "size-32", "size-64", "size-128",
       "size-256", "size-512", "size-1024", "size-2048" >>

(***************************************************************************)
(* Bounds of the model.                                                    *)
(***************************************************************************)
\* first page of the heap region handed to init (heap_start / PAGE_SIZE)
HeapStartPage == 16
\* number of pages of the heap region handed to init
HeapPages == 4
\* most allocations alive (or being made) at once in the sequential runs
MaxLive == 3
\* most allocations alive (or being made) at once in the one-class runs
MaxLiveDeep == 5
\* most allocations alive (or being made) at once in the two-thread runs
MaxLiveMT == 2
\* number of threads of the concurrent runs
NThreads == 2
\* most allocations alive (or being made) at once in the runs over all classes
MaxLiveClasses == 2

Threads == 1..NThreads

\* request sizes the callers draw from: a power of two (16, class index 1), a
\* size that is no power of two (528 = 16 * 33, which the code also sends to
\* index 1), the one-object class (2048) and two large requests
SmallSizes == {16, 528, 2048}
LargeSizes == {2049, 5000}
AllocSizes == SmallSizes \cup LargeSizes

VARIABLES
    page_alloc,     \* SlabAllocator.page_alloc: [some, next, end]
    node_caches,    \* SlabAllocator.node_caches: class index -> cache address or NULL
    list_nodes,     \* every ListNode in memory: address -> [next, prev]
    caches,         \* Cache headers: address -> [obj_size, num, name]
    slabs,          \* Slab headers: page address -> [s_mem, free, inuse]
    bufctl,         \* bufctl array of each slab: page address -> [0..num-1 -> index]
    lock,           \* holder of the Locked<SlabAllocator> mutex, 0 when free
    pc,             \* position of each thread inside alloc / dealloc
    call,           \* arguments of the call each thread is making: [size, ptr]
    loc,            \* locals of alloc carried between its steps: [cache, slab]
    live,           \* bag of [ptr, size] the callers currently hold
    last,           \* the most recently completed call
    snap,           \* per thread: the allocator's memory when it took the lock
    panicked        \* "" or the message of the panic that halted the kernel

VARIABLES
    fs,               \* the Fat32FileSystem: its disk and the decoded boot fields
    overflow_checks,  \* whether the build panics on integer overflow
    current_cluster,  \* ShellSession.current_cluster
    fs_pc,            \* position of the reader: "off", "idle", inside read_file, ...
    rf,               \* locals of read_file carried between its steps
    fs_out,           \* outcome of the most recently finished reader or shell call
    walk,             \* a path being resolved in one call and segment by segment
    written           \* what the image was made from: the input of the run

allocVars == << page_alloc, node_caches, list_nodes, caches, slabs, bufctl >>
slabVars == << page_alloc, node_caches, list_nodes, caches, slabs, bufctl,
               lock, pc, call, loc, live, last, snap, panicked >>
fsVars == << fs, overflow_checks, current_cluster, fs_pc, rf, fs_out, walk, written >>
vars == << page_alloc, node_caches, list_nodes, caches, slabs, bufctl,
           lock, pc, call, loc, live, last, snap, panicked,
           fs, overflow_checks, current_cluster, fs_pc, rf, fs_out, walk, written >>

(***************************************************************************)
(* Integer helpers of core.                                                *)
(***************************************************************************)
RECURSIVE trailing_zeros(_)
trailing_zeros(n) ==
    IF n = 0 THEN USIZE_BITS
    ELSE IF n % 2 = 1 THEN 0 ELSE 1 + trailing_zeros(n \div 2)

saturating_sub(a, b) == IF a > b THEN a - b ELSE 0

max(a, b) == IF a >= b THEN a ELSE b

RECURSIVE Pow2AtLeast(_, _)
Pow2AtLeast(n, p) == IF p >= n THEN p ELSE Pow2AtLeast(n, 2 * p)

next_power_of_two(n) == Pow2AtLeast(n, 1)

\* f with key k (added to the domain when new) bound to v
Upd(f, k, v) == (k :> v) @@ f

\* Body applied to the value of v, which is computed once
With(v, Body(_)) == CHOOSE r \in {Body(x) : x \in {v}} : TRUE

(***************************************************************************)
(* The allocator's memory as one record, so that the helper functions can  *)
(* be composed the way the code calls them.                                *)
(***************************************************************************)
AllocState ==
    [pa |-> page_alloc, nc |-> node_caches, nodes |-> list_nodes,
     caches |-> caches, slabs |-> slabs, bufctl |-> bufctl]

Install(S) ==
    /\ page_alloc' = S.pa
    /\ node_caches' = S.nc
    /\ list_nodes' = S.nodes
    /\ caches' = S.caches
    /\ slabs' = S.slabs
    /\ bufctl' = S.bufctl

(***************************************************************************)
(* PageAllocator::alloc_pages                                              *)
(***************************************************************************)
\* alloc_pages handing out pages without comparing with the end of the heap
alloc_pages_unchecked(pa, num) ==
    [some |-> TRUE, addr |-> pa.next,
     pa |-> [pa EXCEPT !.next = pa.next + num * PAGE_SIZE]]

\* alloc_pages refusing a request that fits the remaining pages exactly
alloc_pages_off_by_one(pa, num) ==
    LET bytes == num * PAGE_SIZE IN
    IF pa.next + bytes >= pa.end
    THEN [some |-> FALSE, addr |-> NULL, pa |-> pa]
    ELSE [some |-> TRUE, addr |-> pa.next,
          pa |-> [pa EXCEPT !.next = pa.next + bytes]]

alloc_pages(pa, num) ==
    LET bytes == num * PAGE_SIZE IN
    IF pa.next + bytes > pa.end
    THEN [some |-> FALSE, addr |-> NULL, pa |-> pa]
    ELSE [some |-> TRUE, addr |-> pa.next,
          pa |-> [pa EXCEPT !.next = pa.next + bytes]]

(***************************************************************************)
(* Intrusive circular doubly-linked lists                                  *)
(***************************************************************************)
ListNode_init(nodes, node) == Upd(nodes, node, [next |-> node, prev |-> node])

list_add(nodes, entry, head) ==
    LET n1 == Upd(nodes, entry, [next |-> nodes[head].next, prev |-> head])
        n2 == [n1 EXCEPT ![n1[head].next].prev = entry]
    IN  [n2 EXCEPT ![head].next = entry]

\* list_del relinking the forward pointer only
list_del_forward_only(nodes, entry) ==
    [nodes EXCEPT ![nodes[entry].prev].next = nodes[entry].next]

list_del(nodes, entry) ==
    LET n1 == [nodes EXCEPT ![nodes[entry].prev].next = nodes[entry].next]
    IN  [n1 EXCEPT ![n1[entry].next].prev = n1[entry].prev]

list_empty(nodes, head) == nodes[head].next = head

(***************************************************************************)
(* SlabAllocator::get_or_create_cache                                      *)
(***************************************************************************)
CacheIndex(size) == saturating_sub(trailing_zeros(size), 3)

\* get_or_create_cache counting the objects of a slab as if the page held
\* no slab header
get_or_create_cache_no_header(S, size) ==
    LET idx == CacheIndex(size)
        name == IF idx < Len(CACHE_NAMES) THEN CACHE_NAMES[idx + 1] ELSE "size-large"
    IN
    IF size <= 0 THEN [panic |-> "assertion failed: size > 0", st |-> S, cache |-> NULL]
    ELSE IF idx >= MAX_CLASSES
    THEN [panic |-> "index out of bounds", st |-> S, cache |-> NULL]
    ELSE IF S.nc[idx] = NULL
    THEN LET r == alloc_pages(S.pa, 1) IN
         IF ~r.some
         THEN [panic |-> "OOM Cache", st |-> S, cache |-> NULL]
         ELSE LET cache_ptr == r.addr
                  obj_size == next_power_of_two(max(size, 8))
                  num == PAGE_SIZE \div (obj_size + SIZEOF_BUFCTL)
                  n1 == ListNode_init(S.nodes, cache_ptr + OFF_FULL)
                  n2 == ListNode_init(n1, cache_ptr + OFF_PARTIAL)
                  n3 == ListNode_init(n2, cache_ptr + OFF_FREE)
              IN  [panic |-> "",
                   st |-> [S EXCEPT
                             !.pa = r.pa,
                             !.caches = Upd(S.caches, cache_ptr,
                                            [obj_size |-> obj_size, num |-> num,
                                             name |-> name]),
                             !.nodes = n3,
                             !.nc[idx] = cache_ptr],
                   cache |-> cache_ptr]
    ELSE [panic |-> "", st |-> S, cache |-> S.nc[idx]]

get_or_create_cache(S, size) ==
    With(CacheIndex(size), LAMBDA idx :
    IF size <= 0 THEN [panic |-> "assertion failed: size > 0", st |-> S, cache |-> NULL]
    ELSE IF idx >= MAX_CLASSES
    THEN [panic |-> "index out of bounds", st |-> S, cache |-> NULL]
    ELSE IF S.nc[idx] = NULL
    THEN With(alloc_pages(S.pa, 1), LAMBDA r :
         IF ~r.some
         THEN [panic |-> "OOM Cache", st |-> S, cache |-> NULL]
         ELSE LET cache_ptr == r.addr
                  name == IF idx < Len(CACHE_NAMES) THEN CACHE_NAMES[idx + 1]
                          ELSE "size-large"
                  obj_size == next_power_of_two(max(size, 8))
                  num == (PAGE_SIZE - SIZEOF_SLAB) \div (obj_size + SIZEOF_BUFCTL)
              IN  With(ListNode_init(S.nodes, cache_ptr + OFF_FULL), LAMBDA n1 :
                  With(ListNode_init(n1, cache_ptr + OFF_PARTIAL), LAMBDA n2 :
                  With(ListNode_init(n2, cache_ptr + OFF_FREE), LAMBDA n3 :
                  [panic |-> "",
                   st |-> [S EXCEPT
                             !.pa = r.pa,
                             !.caches = Upd(S.caches, cache_ptr,
                                            [obj_size |-> obj_size, num |-> num,
                                             name |-> name]),
                             !.nodes = n3,
                             !.nc[idx] = cache_ptr],
                   cache |-> cache_ptr]))))
    ELSE [panic |-> "", st |-> S, cache |-> S.nc[idx]])

(***************************************************************************)
(* cache_grow                                                              *)
(***************************************************************************)
\* cache_grow linking the last bufctl entry to index num instead of END
slab_write_unterminated(S, cache, slab_ptr) ==
    LET num == S.caches[cache].num
        bufctl_ptr == slab_ptr + SIZEOF_SLAB
        bufctl_table_size == num * SIZEOF_BUFCTL
        unaligned == bufctl_ptr + bufctl_table_size + ALIGNOF_USIZE - 1
        obj_start == unaligned - (unaligned % ALIGNOF_USIZE)
        table == [i \in 0..(num - 1) |-> i + 1]
    IN  [S EXCEPT
           !.slabs = Upd(S.slabs, slab_ptr,
                         [s_mem |-> obj_start, free |-> 0, inuse |-> 0]),
           !.bufctl = Upd(S.bufctl, slab_ptr, table),
           !.nodes = list_add(S.nodes, slab_ptr, cache + OFF_FREE)]

\* the slab header, bufctl table and list insertion cache_grow writes into
\* the page it obtained
slab_write(S, cache, slab_ptr) ==
    With(S.caches[cache].num, LAMBDA num :
    LET bufctl_ptr == slab_ptr + SIZEOF_SLAB
        bufctl_table_size == num * SIZEOF_BUFCTL
        unaligned == bufctl_ptr + bufctl_table_size + ALIGNOF_USIZE - 1
        obj_start == unaligned - (unaligned % ALIGNOF_USIZE)
        table == [i \in 0..(num - 1) |-> IF i + 1 = num THEN END ELSE i + 1]
    IN  [S EXCEPT
           !.slabs = Upd(S.slabs, slab_ptr,
                         [s_mem |-> obj_start, free |-> 0, inuse |-> 0]),
           !.bufctl = Upd(S.bufctl, slab_ptr, table),
           !.nodes = list_add(S.nodes, slab_ptr, cache + OFF_FREE)])

\* cache_grow taking the page at the cursor without asking whether one is left
cache_grow_unchecked(S, cache) ==
    [panic |-> "",
     st |-> slab_write([S EXCEPT !.pa.next = S.pa.next + PAGE_SIZE], cache, S.pa.next)]

cache_grow(S, cache) ==
    With(alloc_pages(S.pa, 1), LAMBDA r :
    IF ~r.some
    THEN [panic |-> "OOM Slab", st |-> S]
    ELSE With([S EXCEPT !.pa = r.pa], LAMBDA S1 :
         [panic |-> "", st |-> slab_write(S1, cache, r.addr)]))

(***************************************************************************)
(* GlobalAlloc::alloc, small requests: the slab selection and the pop of   *)
(* the slab's first free object.                                           *)
(***************************************************************************)
\* alloc growing the cache whenever no slab is partial, a free slab or not
alloc_select_grows_when_no_partial(S, size) ==
    LET g == get_or_create_cache(S, size) IN
    IF g.panic # ""
    THEN [panic |-> g.panic, st |-> g.st, cache |-> NULL, slab_node |-> NULL]
    ELSE
    LET cache == g.cache
        S1 == g.st
    IN
    IF ~list_empty(S1.nodes, cache + OFF_PARTIAL)
    THEN [panic |-> "", st |-> S1, cache |-> cache,
          slab_node |-> S1.nodes[cache + OFF_PARTIAL].next]
    ELSE
    LET gr == cache_grow(S1, cache) IN
    IF gr.panic # ""
    THEN [panic |-> gr.panic, st |-> gr.st, cache |-> cache, slab_node |-> NULL]
    ELSE
    LET node == gr.st.nodes[cache + OFF_FREE].next
        n1 == list_del(gr.st.nodes, node)
        n2 == list_add(n1, node, cache + OFF_PARTIAL)
    IN  [panic |-> "", st |-> [gr.st EXCEPT !.nodes = n2], cache |-> cache,
         slab_node |-> node]

alloc_select(S, size) ==
    With(get_or_create_cache(S, size), LAMBDA g :
    IF g.panic # ""
    THEN [panic |-> g.panic, st |-> g.st, cache |-> NULL, slab_node |-> NULL]
    ELSE
    With(g.cache, LAMBDA cache :
    With(g.st, LAMBDA S1 :
    IF ~list_empty(S1.nodes, cache + OFF_PARTIAL)
    THEN [panic |-> "", st |-> S1, cache |-> cache,
          slab_node |-> S1.nodes[cache + OFF_PARTIAL].next]
    ELSE
    With(IF list_empty(S1.nodes, cache + OFF_FREE)
         THEN cache_grow(S1, cache)
         ELSE [panic |-> "", st |-> S1], LAMBDA gr :
    IF gr.panic # ""
    THEN [panic |-> gr.panic, st |-> gr.st, cache |-> cache, slab_node |-> NULL]
    ELSE
    With(gr.st.nodes[cache + OFF_FREE].next, LAMBDA node :
    With(list_del(gr.st.nodes, node), LAMBDA n1 :
    With(list_add(n1, node, cache + OFF_PARTIAL), LAMBDA n2 :
    [panic |-> "", st |-> [gr.st EXCEPT !.nodes = n2], cache |-> cache,
     slab_node |-> node])))))))

\* *bufctl_ptr.add(i); the table is only ever read inside its num entries
BufCtlRead(table, i) == IF i \in DOMAIN table THEN table[i] ELSE END

alloc_object(S, cache, slab) ==
    LET obj_idx == S.slabs[slab].free
        obj == S.slabs[slab].s_mem + obj_idx * S.caches[cache].obj_size
        inuse == S.slabs[slab].inuse + 1
        S1 == [S EXCEPT !.slabs[slab].free = BufCtlRead(S.bufctl[slab], obj_idx),
                        !.slabs[slab].inuse = inuse]
    IN  [obj |-> obj,
         st |-> IF inuse = S.caches[cache].num
                THEN [S1 EXCEPT !.nodes = list_add(list_del(S1.nodes, slab), slab,
                                                   cache + OFF_FULL)]
                ELSE S1]

(***************************************************************************)
(* GlobalAlloc::dealloc, small requests                                    *)
(***************************************************************************)
\* dealloc writing the bufctl entry but leaving slab.free where it was
dealloc_object_keeps_free(S, ptr, size) ==
    LET cache == S.nc[CacheIndex(size)]
        slab == ptr - (ptr % PAGE_SIZE)
        obj_idx == (ptr - S.slabs[slab].s_mem) \div S.caches[cache].obj_size
        inuse == S.slabs[slab].inuse - 1
        S1 == [S EXCEPT !.bufctl[slab] = Upd(S.bufctl[slab], obj_idx, S.slabs[slab].free),
                        !.slabs[slab].inuse = inuse]
    IN  [panic |-> "",
         st |-> IF inuse + 1 = S.caches[cache].num
                THEN [S1 EXCEPT !.nodes = list_add(list_del(S1.nodes, slab), slab,
                                                   cache + OFF_PARTIAL)]
                ELSE IF inuse = 0
                THEN [S1 EXCEPT !.nodes = list_add(list_del(S1.nodes, slab), slab,
                                                   cache + OFF_FREE)]
                ELSE S1]

\* dealloc looking its cache up by the size rounded to its power of two
dealloc_object_rounded_class(S, ptr, size) ==
    With(get_or_create_cache(S, next_power_of_two(max(size, 8))), LAMBDA g :
    IF g.panic # ""
    THEN [panic |-> g.panic, st |-> g.st]
    ELSE
    With(g.cache, LAMBDA cache :
    With(g.st, LAMBDA S0 :
    With(ptr - (ptr % PAGE_SIZE), LAMBDA slab :
    With((ptr - S0.slabs[slab].s_mem) \div S0.caches[cache].obj_size, LAMBDA obj_idx :
    With(S0.slabs[slab].inuse - 1, LAMBDA inuse :
    With([S0 EXCEPT !.bufctl[slab] = Upd(S0.bufctl[slab], obj_idx, S0.slabs[slab].free),
                    !.slabs[slab].free = obj_idx,
                    !.slabs[slab].inuse = inuse], LAMBDA S1 :
    [panic |-> "",
     st |-> IF inuse + 1 = S0.caches[cache].num
            THEN [S1 EXCEPT !.nodes = list_add(list_del(S1.nodes, slab), slab,
                                               cache + OFF_PARTIAL)]
            ELSE IF inuse = 0
            THEN [S1 EXCEPT !.nodes = list_add(list_del(S1.nodes, slab), slab,
                                               cache + OFF_FREE)]
            ELSE S1])))))))

dealloc_object(S, ptr, size) ==
    With(get_or_create_cache(S, size), LAMBDA g :
    IF g.panic # ""
    THEN [panic |-> g.panic, st |-> g.st]
    ELSE
    With(g.cache, LAMBDA cache :
    With(g.st, LAMBDA S0 :
    With(ptr - (ptr % PAGE_SIZE), LAMBDA slab :
    With((ptr - S0.slabs[slab].s_mem) \div S0.caches[cache].obj_size, LAMBDA obj_idx :
    With(S0.slabs[slab].inuse - 1, LAMBDA inuse :
    With([S0 EXCEPT !.bufctl[slab] = Upd(S0.bufctl[slab], obj_idx, S0.slabs[slab].free),
                    !.slabs[slab].free = obj_idx,
                    !.slabs[slab].inuse = inuse], LAMBDA S1 :
    [panic |-> "",
     st |-> IF inuse + 1 = S0.caches[cache].num
            THEN [S1 EXCEPT !.nodes = list_add(list_del(S1.nodes, slab), slab,
                                               cache + OFF_PARTIAL)]
            ELSE IF inuse = 0
            THEN [S1 EXCEPT !.nodes = list_add(list_del(S1.nodes, slab), slab,
                                               cache + OFF_FREE)]
            ELSE S1])))))))

\* dealloc looking its cache up before the early return
dealloc_effect_lookup_first(S, ptr, size) ==
    LET g == get_or_create_cache(S, size) IN
    IF size > MAX_SLAB_SIZE \/ ptr = NULL
    THEN [panic |-> g.panic, st |-> g.st]
    ELSE dealloc_object(S, ptr, size)

\* the whole body of dealloc: the early return, else the push of the object
dealloc_effect(S, ptr, size) ==
    IF size > MAX_SLAB_SIZE \/ ptr = NULL
    THEN [panic |-> "", st |-> S]
    ELSE dealloc_object(S, ptr, size)

(***************************************************************************)
(* Locked<SlabAllocator>: a spin mutex; lock() returns once the caller     *)
(* holds it, the guard releases it when the call returns.                  *)
(***************************************************************************)
Locked_lock(t) == lock = 0 /\ lock' = t

Locked_unlock(t) == lock' = 0

(***************************************************************************)
(* What the callers hold                                                   *)
(***************************************************************************)
Allocation(ptr, size) == [ptr |-> ptr, size |-> size]

InFlight == Cardinality({t \in Threads : pc[t] \in {"alloc_lock", "alloc_body", "alloc_obj"}})

NoCall == [size |-> 0, ptr |-> NULL]
NoLocals == [cache |-> NULL, slab |-> NULL]
NoLast == [kind |-> "none", size |-> 0, ptr |-> NULL]
NoSnap == << >>

\* sizes of the dealloc calls made with a null pointer
NullSizes == {16}

(***************************************************************************)
(* State after SlabAllocator::new() and Locked::new()                      *)
(***************************************************************************)
InitAlloc ==
    /\ page_alloc = [some |-> FALSE, next |-> 0, end |-> 0]
    /\ node_caches = [i \in 0..(MAX_CLASSES - 1) |-> NULL]
    /\ list_nodes = << >>
    /\ caches = << >>
    /\ slabs = << >>
    /\ bufctl = << >>
    /\ lock = 0
    /\ pc = [t \in Threads |-> "idle"]
    /\ call = [t \in Threads |-> NoCall]
    /\ loc = [t \in Threads |-> NoLocals]
    /\ live = EmptyBag
    /\ last = NoLast
    /\ snap = [t \in Threads |-> NoSnap]
    /\ panicked = ""

(***************************************************************************)
(* SlabAllocator::init                                                     *)
(***************************************************************************)
init(heap_start, heap_size) ==
    /\ panicked = ""
    /\ UNCHANGED fsVars
    /\ ~page_alloc.some
    /\ page_alloc' = [some |-> TRUE, next |-> heap_start, end |-> heap_start + heap_size]
    /\ UNCHANGED << node_caches, list_nodes, caches, slabs, bufctl,
                    lock, pc, call, loc, live, last, snap, panicked >>

(***************************************************************************)
(* GlobalAlloc::alloc                                                      *)
(***************************************************************************)
alloc_call(t, cap, sizes) ==
    /\ panicked = ""
    /\ UNCHANGED fsVars
    /\ page_alloc.some
    /\ pc[t] = "idle"
    /\ BagCardinality(live) + InFlight < cap
    /\ \E size \in sizes :
          call' = [call EXCEPT ![t] = [size |-> size, ptr |-> NULL]]
    /\ pc' = [pc EXCEPT ![t] = "alloc_lock"]
    /\ UNCHANGED << allocVars, lock, loc, live, last, snap, panicked >>

\* alloc entering its body without waiting for the lock to be free
alloc_lock_no_wait(t) ==
    /\ panicked = ""
    /\ UNCHANGED fsVars
    /\ pc[t] = "alloc_lock"
    /\ lock' = t
    /\ pc' = [pc EXCEPT ![t] = "alloc_body"]
    /\ snap' = [snap EXCEPT ![t] = AllocState]
    /\ UNCHANGED << allocVars, call, loc, live, last, panicked >>

alloc_lock(t) ==
    /\ panicked = ""
    /\ UNCHANGED fsVars
    /\ pc[t] = "alloc_lock"
    /\ Locked_lock(t)
    /\ pc' = [pc EXCEPT ![t] = "alloc_body"]
    /\ snap' = [snap EXCEPT ![t] = AllocState]
    /\ UNCHANGED << allocVars, call, loc, live, last, panicked >>

alloc_large(t) ==
    /\ panicked = ""
    /\ UNCHANGED fsVars
    /\ pc[t] = "alloc_body"
    /\ call[t].size > MAX_SLAB_SIZE
    /\ LET size == call[t].size
           num_pages == (size + PAGE_SIZE - 1) \div PAGE_SIZE
           r == alloc_pages(page_alloc, num_pages)
           p == IF r.some THEN r.addr ELSE NULL
       IN  /\ page_alloc' = r.pa
           /\ live' = IF p = NULL THEN live
                      ELSE live (+) SetToBag({Allocation(p, size)})
           /\ last' = [kind |-> "alloc", size |-> size, ptr |-> p]
    /\ Locked_unlock(t)
    /\ pc' = [pc EXCEPT ![t] = "idle"]
    /\ call' = [call EXCEPT ![t] = NoCall]
    /\ snap' = [snap EXCEPT ![t] = NoSnap]
    /\ UNCHANGED << node_caches, list_nodes, caches, slabs, bufctl, loc, panicked >>

alloc_slab(t) ==
    /\ panicked = ""
    /\ UNCHANGED fsVars
    /\ pc[t] = "alloc_body"
    /\ call[t].size <= MAX_SLAB_SIZE
    /\ \E r \in {alloc_select(AllocState, call[t].size)} :
       /\ Install(r.st)
       /\ IF r.panic # ""
          THEN /\ panicked' = r.panic
               /\ pc' = [pc EXCEPT ![t] = "panicked"]
               /\ UNCHANGED loc
          ELSE /\ loc' = [loc EXCEPT ![t] = [cache |-> r.cache, slab |-> r.slab_node]]
               /\ pc' = [pc EXCEPT ![t] = "alloc_obj"]
               /\ UNCHANGED panicked
    /\ UNCHANGED << lock, call, live, last, snap >>

alloc_obj(t) ==
    /\ panicked = ""
    /\ UNCHANGED fsVars
    /\ pc[t] = "alloc_obj"
    /\ \E r \in {alloc_object(AllocState, loc[t].cache, loc[t].slab)} :
       /\ Install(r.st)
       /\ live' = live (+) SetToBag({Allocation(r.obj, call[t].size)})
       /\ last' = [kind |-> "alloc", size |-> call[t].size, ptr |-> r.obj]
    /\ Locked_unlock(t)
    /\ pc' = [pc EXCEPT ![t] = "idle"]
    /\ call' = [call EXCEPT ![t] = NoCall]
    /\ loc' = [loc EXCEPT ![t] = NoLocals]
    /\ snap' = [snap EXCEPT ![t] = NoSnap]
    /\ UNCHANGED panicked

(***************************************************************************)
(* GlobalAlloc::dealloc                                                    *)
(***************************************************************************)
dealloc_call(t) ==
    /\ panicked = ""
    /\ UNCHANGED fsVars
    /\ page_alloc.some
    /\ pc[t] = "idle"
    /\ \/ \E a \in BagToSet(live) :
            /\ live' = live (-) SetToBag({a})
            /\ call' = [call EXCEPT ![t] = [size |-> a.size, ptr |-> a.ptr]]
       \/ \E size \in NullSizes :
            /\ call' = [call EXCEPT ![t] = [size |-> size, ptr |-> NULL]]
            /\ UNCHANGED live
    /\ pc' = [pc EXCEPT ![t] = "dealloc_lock"]
    /\ UNCHANGED << allocVars, lock, loc, last, snap, panicked >>

dealloc_lock(t) ==
    /\ panicked = ""
    /\ UNCHANGED fsVars
    /\ pc[t] = "dealloc_lock"
    /\ Locked_lock(t)
    /\ pc' = [pc EXCEPT ![t] = "dealloc_body"]
    /\ snap' = [snap EXCEPT ![t] = AllocState]
    /\ UNCHANGED << allocVars, call, loc, live, last, panicked >>

\* dealloc returning early, for a large size or a null pointer, without
\* releasing the lock
dealloc_body_early_return_keeps_lock(t) ==
    /\ panicked = ""
    /\ UNCHANGED fsVars
    /\ pc[t] = "dealloc_body"
    /\ \E r \in {dealloc_effect(AllocState, call[t].ptr, call[t].size)} :
       /\ Install(r.st)
       /\ panicked' = r.panic
       /\ pc' = [pc EXCEPT ![t] = IF r.panic # "" THEN "panicked" ELSE "idle"]
    /\ last' = [kind |-> "dealloc", size |-> call[t].size, ptr |-> call[t].ptr]
    /\ IF call[t].size > MAX_SLAB_SIZE \/ call[t].ptr = NULL
       THEN UNCHANGED lock
       ELSE Locked_unlock(t)
    /\ call' = [call EXCEPT ![t] = NoCall]
    /\ snap' = [snap EXCEPT ![t] = NoSnap]
    /\ UNCHANGED << loc, live >>

dealloc_body(t) ==
    /\ panicked = ""
    /\ UNCHANGED fsVars
    /\ pc[t] = "dealloc_body"
    /\ \E r \in {dealloc_effect(AllocState, call[t].ptr, call[t].size)} :
       /\ Install(r.st)
       /\ panicked' = r.panic
       /\ pc' = [pc EXCEPT ![t] = IF r.panic # "" THEN "panicked" ELSE "idle"]
    /\ last' = [kind |-> "dealloc", size |-> call[t].size, ptr |-> call[t].ptr]
    /\ Locked_unlock(t)
    /\ call' = [call EXCEPT ![t] = NoCall]
    /\ snap' = [snap EXCEPT ![t] = NoSnap]
    /\ UNCHANGED << loc, live >>

(***************************************************************************)
(* FAT32 reader (src/src/file_system.rs).                                  *)
(*                                                                         *)
(* A byte is a number in 0..255, the disk a sequence of bytes (Rust's      *)
(* 0-based index i is element i + 1), a String the sequence of its UTF-8   *)
(* bytes.  A u32 that wrapped below zero is held as the negative number n  *)
(* that stands for 2^32 + n.                                               *)
(***************************************************************************)
BootOffsets_BytsPerSec == 11
BootOffsets_SecPerClus == 13
BootOffsets_RsvdSecCnt == 14
BootOffsets_NumFATs == 16
BootOffsets_FATSz32 == 36
BootOffsets_RootClus == 44

DirOffsets_Name == 0
DirOffsets_Attr == 11
DirOffsets_FstClusHI == 20
DirOffsets_FstClusLO == 26
DirOffsets_FileSize == 28

LfnOffsets_Ord == 0
LfnOffsets_Name1 == 1
LfnOffsets_Attr == 11
LfnOffsets_LType == 12
LfnOffsets_ChkSum == 13
LfnOffsets_Name2 == 14
LfnOffsets_ReservedFCH == 26
LfnOffsets_Name3 == 28

ENTRY_SIZE == 32
ATTR_LFN == 15
ATTR_DIRECTORY == 16
\* 0x08, the volume label bit tested by process_data_entry
ATTR_VOLUME_ID == 8
\* 0xE5, first byte of a deleted entry
DELETED_MARK == 229
\* 0x0FFFFFF8, the least end-of-chain value
END_OF_CHAIN == 268435448
\* '/', '.' and ' '
SLASH == 47
DOT == 46
SPACE == 32

\* Option<T>
None == [some |-> FALSE]
Some(v) == [some |-> TRUE, val |-> v]

\* outcome of a function that may panic: the message, or "" and the value
Ret(v) == [panic |-> "", val |-> v]
Panic(msg, v) == [panic |-> msg, val |-> v]

FileInfo_new(name, is_directory, size, start_cluster) ==
    [name |-> name, is_directory |-> is_directory, size |-> size,
     start_cluster |-> start_cluster]

\* the two bytes at offset o read high byte first
read_u16_big_endian(d, o) == 256 * d[o + 1] + d[o + 2]

\* u16::from_le_bytes / u32::from_le_bytes of the bytes at offset o
read_u16(d, o) == d[o + 1] + 256 * d[o + 2]

read_u32(d, o) == d[o + 1] + 256 * d[o + 2] + 65536 * d[o + 3] + 16777216 * d[o + 4]

Fat32FileSystem_new(disk) ==
    LET bytes_per_sector == read_u16(disk, BootOffsets_BytsPerSec)
        sectors_per_cluster == disk[BootOffsets_SecPerClus + 1]
        reserved_sectors_count == read_u16(disk, BootOffsets_RsvdSecCnt)
        num_fats == disk[BootOffsets_NumFATs + 1]
        sectors_per_fat == read_u32(disk, BootOffsets_FATSz32)
        root_cluster == read_u32(disk, BootOffsets_RootClus)
    IN  [disk |-> disk,
         bytes_per_sector |-> bytes_per_sector,
         sectors_per_cluster |-> sectors_per_cluster,
         fat_sector |-> reserved_sectors_count,
         data_sector |-> reserved_sectors_count + num_fats * sectors_per_fat,
         root_cluster |-> root_cluster]

\* read_sector returning a sector of zeros for a range past the end
read_sector_zero_fill(F, address) ==
    LET offset == address * F.bytes_per_sector
        size == F.bytes_per_sector
    IN  IF address < 0 \/ offset + size > Len(F.disk)
        THEN Ret([i \in 1..size |-> 0])
        ELSE Ret(SubSeq(F.disk, offset + 1, offset + size))

\* a negative address is a wrapped one: times bytes_per_sector it stays
\* within bytes_per_sector * 2^31 of 2^32, far past the end of the disk
read_sector(F, address) ==
    LET offset == address * F.bytes_per_sector
        size == F.bytes_per_sector
    IN  IF address < 0 \/ offset + size > Len(F.disk)
        THEN Panic("Error reading outbound", << >>)
        ELSE Ret(SubSeq(F.disk, offset + 1, offset + size))

RECURSIVE read_sectors(_, _, _, _)
read_sectors(F, start_address, i, data) ==
    IF i >= F.sectors_per_cluster THEN Ret(data)
    ELSE LET sector_data == read_sector(F, start_address + i) IN
         IF sector_data.panic # "" THEN sector_data
         ELSE read_sectors(F, start_address, i + 1, data \o sector_data.val)

\* read_cluster counting clusters from the first data sector on
read_cluster_from_zero(F, cluster_id) ==
    read_sectors(F, F.data_sector + cluster_id * F.sectors_per_cluster, 0, << >>)

\* cluster_id - 2 below zero: a panic in a build with overflow checks, a
\* wrapped u32 in a build without
read_cluster(F, cluster_id) ==
    IF cluster_id < 2 /\ overflow_checks
    THEN Panic("attempt to subtract with overflow", << >>)
    ELSE read_sectors(F, F.data_sector + (cluster_id - 2) * F.sectors_per_cluster,
                      0, << >>)

\* read_fat_entry looking every entry up in the first sector of the FAT
read_fat_entry_first_sector(F, cluster_id) ==
    LET fat_offset == cluster_id * 4
        fat_index == fat_offset % F.bytes_per_sector
        sector == read_sector(F, F.fat_sector)
    IN  IF sector.panic # "" THEN Panic(sector.panic, 0)
        ELSE IF fat_index + 4 > Len(sector.val)
        THEN Panic("range end index out of range", 0)
        ELSE Ret(sector.val[fat_index + 1] + 256 * sector.val[fat_index + 2]
                 + 65536 * sector.val[fat_index + 3]
                 + 16777216 * (sector.val[fat_index + 4] % 16))

\* entry & 0x0FFFFFFF clears the high four bits of the fourth byte
read_fat_entry(F, cluster_id) ==
    LET fat_offset == cluster_id * 4
        fat_sector == F.fat_sector + (fat_offset \div F.bytes_per_sector)
        fat_index == fat_offset % F.bytes_per_sector
        sector == read_sector(F, fat_sector)
    IN  IF sector.panic # "" THEN Panic(sector.panic, 0)
        ELSE IF fat_index + 4 > Len(sector.val)
        THEN Panic("range end index out of range", 0)
        ELSE Ret(sector.val[fat_index + 1] + 256 * sector.val[fat_index + 2]
                 + 65536 * sector.val[fat_index + 3]
                 + 16777216 * (sector.val[fat_index + 4] % 16))

(***************************************************************************)
(* core::str::from_utf8 and String::from_utf16                             *)
(***************************************************************************)
\* number of bytes of the character a byte opens: 1 for ASCII, 2..4 for a
\* lead byte, 0 for a byte that opens none
utf8_width(c) ==
    IF c < 128 THEN 1
    ELSE IF c >= 194 /\ c <= 223 THEN 2
    ELSE IF c >= 224 /\ c <= 239 THEN 3
    ELSE IF c >= 240 /\ c <= 244 THEN 4
    ELSE 0

utf8_is_cont(c) == c >= 128 /\ c <= 191

\* the range the byte after lead byte c must lie in
utf8_second_lo(c) == IF c = 224 THEN 160 ELSE IF c = 240 THEN 144 ELSE 128
utf8_second_hi(c) == IF c = 237 THEN 159 ELSE IF c = 244 THEN 143 ELSE 191

\* every byte that is no continuation opens a character whose continuation
\* bytes follow it, and every continuation byte belongs to such a character
utf8_valid(b) ==
    /\ \A i \in 1..Len(b) :
          utf8_is_cont(b[i]) \/
          /\ utf8_width(b[i]) > 0
          /\ i + utf8_width(b[i]) - 1 <= Len(b)
          /\ \A k \in 1..(utf8_width(b[i]) - 1) : utf8_is_cont(b[i + k])
          /\ utf8_width(b[i]) > 1 =>
                /\ b[i + 1] >= utf8_second_lo(b[i])
                /\ b[i + 1] <= utf8_second_hi(b[i])
    /\ \A j \in 1..Len(b) :
          utf8_is_cont(b[j]) =>
             \E d \in 1..3 :
                /\ j - d >= 1
                /\ utf8_width(b[j - d]) > d
                /\ ~utf8_is_cont(b[j - d])
                /\ \A k \in 1..(d - 1) : utf8_is_cont(b[j - k])

from_utf8(b) == IF utf8_valid(b) THEN Some(b) ELSE None

encode_utf8(cp) ==
    IF cp < 128 THEN << cp >>
    ELSE IF cp < 2048 THEN << 192 + (cp \div 64), 128 + (cp % 64) >>
    ELSE IF cp < 65536
    THEN << 224 + (cp \div 4096), 128 + ((cp \div 64) % 64), 128 + (cp % 64) >>
    ELSE << 240 + (cp \div 262144), 128 + ((cp \div 4096) % 64),
            128 + ((cp \div 64) % 64), 128 + (cp % 64) >>

\* the units from index i on, appended as UTF-8 to the bytes decoded so far
RECURSIVE from_utf16_at(_, _, _)
from_utf16_at(v, i, bytes) ==
    IF i > Len(v) THEN Some(bytes)
    ELSE IF v[i] < 55296 \/ v[i] > 57343
    THEN from_utf16_at(v, i + 1, bytes \o encode_utf8(v[i]))
    ELSE IF v[i] <= 56319 /\ i + 1 <= Len(v) /\ v[i + 1] >= 56320 /\ v[i + 1] <= 57343
    THEN from_utf16_at(v, i + 2,
            bytes \o encode_utf8(65536 + (v[i] - 55296) * 1024 + (v[i + 1] - 56320)))
    ELSE None

from_utf16(v) == from_utf16_at(v, 1, << >>)

(***************************************************************************)
(* Names                                                                   *)
(***************************************************************************)
RECURSIVE lfn_checksum_from(_, _, _)
lfn_checksum_from(short_name, i, sum) ==
    IF i > Len(short_name) THEN sum
    ELSE lfn_checksum_from(short_name, i + 1,
            ((sum \div 2) + ((sum % 2) * 128) + short_name[i]) % 256)

lfn_checksum(short_name) == lfn_checksum_from(short_name, 1, 0)

\* the index `end` the two while loops of short_name_to_string stop at
RECURSIVE trim_end(_, _)
trim_end(part, end) ==
    IF end > 0 /\ part[end] = SPACE THEN trim_end(part, end - 1) ELSE end

unwrap_or_empty(o) == IF o.some THEN o.val ELSE << >>

short_name_to_string(name11) ==
    LET name_part == SubSeq(name11, 1, 8)
        ext_part == SubSeq(name11, 9, 11)
        name_str == unwrap_or_empty(
            from_utf8(SubSeq(name_part, 1, trim_end(name_part, Len(name_part)))))
        ext_str == unwrap_or_empty(
            from_utf8(SubSeq(ext_part, 1, trim_end(ext_part, Len(ext_part)))))
    IN  IF ext_str = << >> THEN name_str
        ELSE name_str \o << DOT >> \o ext_str

byte_to_u16_vec(fragment) ==
    [i \in 1..(Len(fragment) \div 2) |-> fragment[2 * i - 1] + 256 * fragment[2 * i]]

(***************************************************************************)
(* Directory listing                                                       *)
(***************************************************************************)
\* a fragment is the pair << seq, units >> kept in LfnFragments
process_lfn_entry(entry_chunk, lfn_fragments, expected_checksum) ==
    LET seq_num == entry_chunk[LfnOffsets_Ord + 1]
        chksum == entry_chunk[LfnOffsets_ChkSum + 1]
        name_1 == SubSeq(entry_chunk, LfnOffsets_Name1 + 1, LfnOffsets_Name1 + 10)
        name_2 == SubSeq(entry_chunk, LfnOffsets_Name2 + 1, LfnOffsets_Name2 + 12)
        name_3 == SubSeq(entry_chunk, LfnOffsets_Name3 + 1, LfnOffsets_Name3 + 4)
        seq == seq_num % 32
        is_last == (seq_num \div 64) % 2 = 1
        kept == IF is_last THEN << >> ELSE lfn_fragments
        fragment_data ==
            byte_to_u16_vec(name_1) \o byte_to_u16_vec(name_2) \o byte_to_u16_vec(name_3)
        hits == {i \in 1..Len(kept) : kept[i][1] = seq}
        first == CHOOSE i \in hits : \A j \in hits : i <= j
    IN  [lfn_fragments |->
            IF hits # {} THEN [kept EXCEPT ![first] = << seq, fragment_data >>]
            ELSE Append(kept, << seq, fragment_data >>),
         expected_checksum |-> IF is_last THEN Some(chksum) ELSE expected_checksum]

\* frags.sort_by(|a, b| a.0.cmp(&b.0)): a stable sort
RECURSIVE sort_by_seq(_)
sort_by_seq(frags) ==
    IF Len(frags) <= 1 THEN frags
    ELSE LET x == frags[Len(frags)]
             sorted == sort_by_seq(SubSeq(frags, 1, Len(frags) - 1))
             before == SelectSeq(sorted, LAMBDA f : f[1] <= x[1])
             after == SelectSeq(sorted, LAMBDA f : f[1] > x[1])
         IN  before \o << x >> \o after

\* the inner loop over one fragment: 0x0000 leaves the loop, 0xFFFF is skipped
RECURSIVE frag_units(_, _)
frag_units(frag, i) ==
    IF i > Len(frag) THEN << >>
    ELSE IF frag[i] = 0 THEN << >>
    ELSE IF frag[i] = 65535 THEN frag_units(frag, i + 1)
    ELSE << frag[i] >> \o frag_units(frag, i + 1)

\* the outer loop over the sorted fragments
RECURSIVE utf16_chars(_, _)
utf16_chars(frags, k) ==
    IF k > Len(frags) THEN << >>
    ELSE frag_units(frags[k][2], 1) \o utf16_chars(frags, k + 1)

\* assemble_lfn taking the fragments in the order they were met
assemble_lfn_unsorted(lfn_fragments) ==
    IF lfn_fragments = << >> THEN None
    ELSE With(utf16_chars(lfn_fragments, 1), LAMBDA v : from_utf16(v))

assemble_lfn(lfn_fragments) ==
    IF lfn_fragments = << >> THEN None
    ELSE With(sort_by_seq(lfn_fragments),
              LAMBDA frags : With(utf16_chars(frags, 1), LAMBDA v : from_utf16(v)))

\* process_data_entry taking the long name whatever checksum was recorded
process_data_entry_unchecked(entry_chunk, lfn_fragments, expected_checksum, attr_directory_mask) ==
    LET name == SubSeq(entry_chunk, DirOffsets_Name + 1, DirOffsets_Name + 11)
        attr == entry_chunk[DirOffsets_Attr + 1]
        first_cluster_high == read_u16(entry_chunk, DirOffsets_FstClusHI)
        first_cluster_low == read_u16(entry_chunk, DirOffsets_FstClusLO)
        size == read_u32(entry_chunk, DirOffsets_FileSize)
        start_cluster == first_cluster_high * 65536 + first_cluster_low
        is_directory == (attr \div attr_directory_mask) % 2 = 1
        name_to_use == IF lfn_fragments # << >> THEN assemble_lfn(lfn_fragments) ELSE None
    IN  IF (attr \div ATTR_VOLUME_ID) % 2 = 1 THEN None
        ELSE Some(FileInfo_new(
                 IF name_to_use.some THEN name_to_use.val ELSE short_name_to_string(name),
                 is_directory, size, start_cluster))

process_data_entry(entry_chunk, lfn_fragments, expected_checksum, attr_directory_mask) ==
    LET name == SubSeq(entry_chunk, DirOffsets_Name + 1, DirOffsets_Name + 11)
        attr == entry_chunk[DirOffsets_Attr + 1]
        first_cluster_high == read_u16(entry_chunk, DirOffsets_FstClusHI)
        first_cluster_low == read_u16(entry_chunk, DirOffsets_FstClusLO)
        size == read_u32(entry_chunk, DirOffsets_FileSize)
        start_cluster == first_cluster_high * 65536 + first_cluster_low
        is_directory == (attr \div attr_directory_mask) % 2 = 1
        computed == lfn_checksum(name)
        name_to_use ==
            IF lfn_fragments # << >> /\ expected_checksum.some
               /\ expected_checksum.val = computed
            THEN assemble_lfn(lfn_fragments)
            ELSE None
    IN  IF (attr \div ATTR_VOLUME_ID) % 2 = 1 THEN None
        ELSE Some(FileInfo_new(
                 IF name_to_use.some THEN name_to_use.val ELSE short_name_to_string(name),
                 is_directory, size, start_cluster))

\* the locals of list_directory_entries before its loop
ListStart ==
    [results |-> << >>, lfn_fragments |-> << >>, expected_checksum |-> None,
     broke |-> FALSE]

\* one turn of the loop that takes a deleted entry for a live one
list_directory_step_keeps_deleted(st, entry_chunk) ==
    LET first_byte == entry_chunk[1]
        attributes == entry_chunk[12]
    IN  IF first_byte = 0 THEN [st EXCEPT !.broke = TRUE]
        ELSE IF attributes = ATTR_LFN
        THEN LET r == process_lfn_entry(entry_chunk, st.lfn_fragments,
                                        st.expected_checksum)
             IN  [st EXCEPT !.lfn_fragments = r.lfn_fragments,
                            !.expected_checksum = r.expected_checksum]
        ELSE LET file_info == process_data_entry(entry_chunk, st.lfn_fragments,
                                                 st.expected_checksum, ATTR_DIRECTORY)
             IN  [st EXCEPT !.results = IF file_info.some
                                        THEN Append(st.results, file_info.val)
                                        ELSE st.results,
                            !.lfn_fragments = << >>,
                            !.expected_checksum = None]

\* one turn of the loop that steps over a deleted entry without clearing
\* the long-name state
list_directory_step_deleted_keeps_lfn(st, entry_chunk) ==
    LET first_byte == entry_chunk[1]
        attributes == entry_chunk[12]
    IN  IF first_byte = 0 THEN [st EXCEPT !.broke = TRUE]
        ELSE IF first_byte = DELETED_MARK
        THEN st
        ELSE IF attributes = ATTR_LFN
        THEN LET r == process_lfn_entry(entry_chunk, st.lfn_fragments,
                                        st.expected_checksum)
             IN  [st EXCEPT !.lfn_fragments = r.lfn_fragments,
                            !.expected_checksum = r.expected_checksum]
        ELSE LET file_info == process_data_entry(entry_chunk, st.lfn_fragments,
                                                 st.expected_checksum, ATTR_DIRECTORY)
             IN  [st EXCEPT !.results = IF file_info.some
                                        THEN Append(st.results, file_info.val)
                                        ELSE st.results,
                            !.lfn_fragments = << >>,
                            !.expected_checksum = None]

\* one turn of the loop of list_directory_entries
list_directory_step(st, entry_chunk) ==
    LET first_byte == entry_chunk[1]
        attributes == entry_chunk[12]
    IN  IF first_byte = 0 THEN [st EXCEPT !.broke = TRUE]
        ELSE IF first_byte = DELETED_MARK
        THEN [st EXCEPT !.lfn_fragments = << >>, !.expected_checksum = None]
        ELSE IF attributes = ATTR_LFN
        THEN LET r == process_lfn_entry(entry_chunk, st.lfn_fragments,
                                        st.expected_checksum)
             IN  [st EXCEPT !.lfn_fragments = r.lfn_fragments,
                            !.expected_checksum = r.expected_checksum]
        ELSE LET file_info == process_data_entry(entry_chunk, st.lfn_fragments,
                                                 st.expected_checksum, ATTR_DIRECTORY)
             IN  [st EXCEPT !.results = IF file_info.some
                                        THEN Append(st.results, file_info.val)
                                        ELSE st.results,
                            !.lfn_fragments = << >>,
                            !.expected_checksum = None]

\* the locals after the loop went over chunks k, k + 1, ... of the cluster
RECURSIVE list_directory_scan(_, _, _)
list_directory_scan(cluster_data, k, st) ==
    IF st.broke \/ (k + 1) * ENTRY_SIZE > Len(cluster_data) THEN st
    ELSE With(list_directory_step(st, SubSeq(cluster_data, k * ENTRY_SIZE + 1,
                                             (k + 1) * ENTRY_SIZE)),
              LAMBDA next : list_directory_scan(cluster_data, k + 1, next))

list_directory_entries(F, cluster_id) ==
    With(read_cluster(F, cluster_id), LAMBDA cluster_data :
         IF cluster_data.panic # "" THEN Panic(cluster_data.panic, << >>)
         ELSE Ret(list_directory_scan(cluster_data.val, 0, ListStart).results))

(***************************************************************************)
(* Path resolution                                                         *)
(***************************************************************************)
\* files.iter().find(|f| f.name == name)
find_name(files, name) ==
    LET hits == {i \in 1..Len(files) : files[i].name = name} IN
    IF hits = {} THEN None
    ELSE Some(files[CHOOSE i \in hits : \A j \in hits : i <= j])

\* path.split("/")
RECURSIVE split(_, _, _)
split(path, i, part) ==
    IF i > Len(path) THEN << part >>
    ELSE IF path[i] = SLASH THEN << part >> \o split(path, i + 1, << >>)
    ELSE split(path, i + 1, Append(part, path[i]))

path_parts(path) == SelectSeq(split(path, 1, << >>), LAMBDA s : s # << >>)

\* find_parent_cluster returning the cluster stored in "..", be it 0
find_parent_cluster_as_stored(F, current_cluster_) ==
    IF current_cluster_ = F.root_cluster THEN Ret(None)
    ELSE With(list_directory_entries(F, current_cluster_), LAMBDA files :
         IF files.panic # "" THEN Panic(files.panic, None)
         ELSE With(find_name(files.val, << DOT, DOT >>), LAMBDA parent :
              IF ~parent.some THEN Ret(None)
              ELSE Ret(Some(parent.val.start_cluster))))

find_parent_cluster(F, current_cluster_) ==
    IF current_cluster_ = F.root_cluster THEN Ret(None)
    ELSE With(list_directory_entries(F, current_cluster_), LAMBDA files :
         IF files.panic # "" THEN Panic(files.panic, None)
         ELSE With(find_name(files.val, << DOT, DOT >>), LAMBDA parent :
              IF ~parent.some THEN Ret(None)
              ELSE Ret(Some(IF parent.val.start_cluster = 0 THEN F.root_cluster
                            ELSE parent.val.start_cluster))))

\* the turn of the loop of parse_path for a ".." part
RECURSIVE parse_path_from(_, _, _, _)
\* the turn for a final ".." answering with the directory it was asked in
parse_path_up_stays(F, parts, i, cluster) ==
    With(find_parent_cluster(F, cluster), LAMBDA up :
         IF up.panic # "" THEN up
         ELSE IF ~up.val.some THEN Ret(None)
         ELSE IF i = Len(parts)
         THEN Ret(Some(FileInfo_new(<< DOT, DOT >>, TRUE, 0, cluster)))
         ELSE parse_path_from(F, parts, i + 1, up.val.val))

parse_path_up(F, parts, i, cluster) ==
    With(find_parent_cluster(F, cluster), LAMBDA up :
         IF up.panic # "" THEN up
         ELSE IF ~up.val.some THEN Ret(None)
         ELSE IF i = Len(parts)
         THEN Ret(Some(FileInfo_new(<< DOT, DOT >>, TRUE, 0, up.val.val)))
         ELSE parse_path_from(F, parts, i + 1, up.val.val))

\* the turn of the loop of parse_path for a named part
parse_path_down(F, parts, i, files) ==
    With(find_name(files, parts[i]), LAMBDA file :
         IF ~file.some THEN Ret(None)
         ELSE IF i = Len(parts) THEN Ret(file)
         ELSE IF ~file.val.is_directory THEN Ret(None)
         ELSE parse_path_from(F, parts, i + 1, file.val.start_cluster))

\* the loop of parse_path from part i on, in directory `cluster`
parse_path_from(F, parts, i, cluster) ==
    IF i > Len(parts) THEN Ret(None)
    ELSE With(list_directory_entries(F, cluster), LAMBDA files :
         IF files.panic # "" THEN Panic(files.panic, None)
         ELSE IF parts[i] = << DOT >> THEN parse_path_from(F, parts, i + 1, cluster)
         ELSE IF parts[i] = << DOT, DOT >> THEN parse_path_up(F, parts, i, cluster)
         ELSE parse_path_down(F, parts, i, files.val))

\* parse_path resolving every path from the root directory
parse_path_from_root(F, path, current_cluster_) ==
    With(path_parts(path), LAMBDA parts : parse_path_from(F, parts, 1, F.root_cluster))

parse_path(F, path, current_cluster_) ==
    LET cluster == IF Len(path) > 0 /\ path[1] = SLASH THEN F.root_cluster
                   ELSE IF current_cluster_.some THEN current_cluster_.val
                   ELSE F.root_cluster
    IN  With(path_parts(path), LAMBDA parts : parse_path_from(F, parts, 1, cluster))

(***************************************************************************)
(* The draft of the reader kept in disk.rs: its parse_path and read_file.  *)
(* Its read_sector, read_cluster, read_fat_entry, find_parent_cluster and  *)
(* list_directory_entries are the ones above, line for line.               *)
(***************************************************************************)
\* the loop of disk.rs's parse_path from part i on: a ".." part moves up
\* and goes on to the next part, also when it is the last one
RECURSIVE disk_parse_path_from(_, _, _, _)
disk_parse_path_from(F, parts, i, cluster) ==
    IF i > Len(parts) THEN Ret(None)
    ELSE With(list_directory_entries(F, cluster), LAMBDA files :
         IF files.panic # "" THEN Panic(files.panic, None)
         ELSE IF parts[i] = << DOT >> THEN disk_parse_path_from(F, parts, i + 1, cluster)
         ELSE IF parts[i] = << DOT, DOT >>
         THEN With(find_parent_cluster(F, cluster), LAMBDA up :
              IF up.panic # "" THEN up
              ELSE IF ~up.val.some THEN Ret(None)
              ELSE disk_parse_path_from(F, parts, i + 1, up.val.val))
         ELSE With(find_name(files.val, parts[i]), LAMBDA file :
              IF ~file.some THEN Ret(None)
              ELSE IF i = Len(parts) THEN Ret(file)
              ELSE IF ~file.val.is_directory THEN Ret(None)
              ELSE disk_parse_path_from(F, parts, i + 1, file.val.start_cluster)))

disk_parse_path(F, path, current_cluster_) ==
    LET cluster == IF Len(path) > 0 /\ path[1] = SLASH THEN F.root_cluster
                   ELSE IF current_cluster_.some THEN current_cluster_.val
                   ELSE F.root_cluster
    IN  With(path_parts(path), LAMBDA parts : disk_parse_path_from(F, parts, 1, cluster))

\* data.truncate(len) dropping nothing
truncate_keeps_all(data, len) == data

\* data.truncate(len)
truncate(data, len) == IF len < Len(data) THEN SubSeq(data, 1, len) ELSE data

(***************************************************************************)
(* Disk images the reader is run on.  Geometry: 32-byte sectors, 4 sectors *)
(* per cluster, 2 reserved sectors, one FAT of 2 sectors, data clusters    *)
(* 2..9.                                                                   *)
(*   /            cluster 2: "notes.txt" (long name, clusters 5 -> 8),     *)
(*                           DOCS                                          *)
(*   /DOCS        cluster 3: ".", "..", SUB, A.TXT (cluster 6)             *)
(*   /DOCS/SUB    cluster 4: ".", "..", B (clusters 7 -> 9)                *)
(***************************************************************************)
ImgGeometry ==
    [bytes_per_sector |-> 32, sectors_per_cluster |-> 4, reserved_sectors_count |-> 2,
     num_fats |-> 1, sectors_per_fat |-> 2, root_cluster |-> 2]
ImgClusterBytes == ImgGeometry.sectors_per_cluster * ImgGeometry.bytes_per_sector
\* the loop of read_file is followed for at most this many turns: one more
\* than the image has data clusters
MaxChain == 9

Zeros(n) == [i \in 1..n |-> 0]
PadTo(s, n, b) == s \o [i \in 1..(n - Len(s)) |-> b]
LE16(n) == << n % 256, (n \div 256) % 256 >>
LE32(n) == << n % 256, (n \div 256) % 256, (n \div 65536) % 256, (n \div 16777216) % 256 >>
RECURSIVE Flatten(_)
Flatten(ss) == IF ss = << >> THEN << >> ELSE Head(ss) \o Flatten(Tail(ss))

U16s(units) == Flatten([i \in 1..Len(units) |-> LE16(units[i])])

\* the reserved sectors: zeros but for the fields Fat32FileSystem::new reads
BootSector ==
    Zeros(BootOffsets_BytsPerSec) \o LE16(ImgGeometry.bytes_per_sector)
    \o << ImgGeometry.sectors_per_cluster >> \o LE16(ImgGeometry.reserved_sectors_count) \o << ImgGeometry.num_fats >>
    \o Zeros(BootOffsets_FATSz32 - BootOffsets_NumFATs - 1) \o LE32(ImgGeometry.sectors_per_fat)
    \o Zeros(BootOffsets_RootClus - BootOffsets_FATSz32 - 4) \o LE32(ImgGeometry.root_cluster)
    \o Zeros(ImgGeometry.reserved_sectors_count * ImgGeometry.bytes_per_sector - BootOffsets_RootClus - 4)

ShortEntry(name8, ext3, attr, cluster, size) ==
    PadTo(name8, 8, SPACE) \o PadTo(ext3, 3, SPACE) \o << attr >> \o Zeros(8)
    \o LE16(cluster \div 65536) \o Zeros(4) \o LE16(cluster % 65536) \o LE32(size)

LfnEntry(ord, units, chksum) ==
    << ord >> \o U16s(SubSeq(units, 1, 5)) \o << ATTR_LFN, 0, chksum >>
    \o U16s(SubSeq(units, 6, 11)) \o << 0, 0 >> \o U16s(SubSeq(units, 12, 13))

\* the 13 units of the only fragment of a long name of at most 12 characters
LfnUnits(name) == PadTo(Append(name, 0), 13, 65535)

\* names, as bytes
Names ==
    [DOCS |-> << 68, 79, 67, 83 >>,
     SUB |-> << 83, 85, 66 >>,
     A |-> << 65 >>,
     TXT |-> << 84, 88, 84 >>,
     A_TXT |-> << 65, 46, 84, 88, 84 >>,
     B |-> << 66 >>,
     NOTES_SHORT |-> << 78, 79, 84, 69, 83, 126, 49 >>,
     NOTES |-> << 110, 111, 116, 101, 115, 46, 116, 120, 116 >>,
     NOPE |-> << 78, 79, 80, 69 >>,
     DOT |-> << DOT >>,
     DOTDOT |-> << DOT, DOT >>]

\* FAT entries as stored: end of chain, end of chain with the reserved high
\* bits set, and a link to the next cluster
EOC == << 255, 255, 255, 15 >>
EOC_HIGH == << 248, 255, 255, 255 >>
Link(n) == LE32(n)

\* bytes of a data cluster: text, with one byte that is no UTF-8 when bad
ClusterText(c, bad) ==
    [i \in 1..ImgClusterBytes |->
        IF bad /\ i = 3 THEN 255 ELSE 97 + ((i + c) % 26)]

DirCluster(entries) == PadTo(Flatten(entries), ImgClusterBytes, 0)

\* what varies between the images
BaseImage ==
    [sizeA |-> 5, fat6 |-> EOC, fat9 |-> EOC, startB |-> 7, sizeB |-> 200,
     bad |-> FALSE, dotdot |-> 0, startSub |-> 4]

Variants ==
    { BaseImage,
      \* A.TXT claims 200 bytes, its chain holds one cluster of 128
      [BaseImage EXCEPT !.sizeA = 200],
      \* the chain of B loops: 7 -> 9 -> 7
      [BaseImage EXCEPT !.fat9 = Link(7)],
      \* B is an empty file stored with start cluster 0
      [BaseImage EXCEPT !.startB = 0, !.sizeB = 0],
      \* the chain of A.TXT leaves the image
      [BaseImage EXCEPT !.fat6 = Link(12)],
      \* A.TXT holds a byte that is no UTF-8
      [BaseImage EXCEPT !.bad = TRUE],
      \* the entry of SUB points past the last cluster of the image
      [BaseImage EXCEPT !.startSub = 12],
      \* the ".." of DOCS stores the root cluster itself
      [BaseImage EXCEPT !.dotdot = ImgGeometry.root_cluster] }

PathVariants == { BaseImage, [BaseImage EXCEPT !.dotdot = ImgGeometry.root_cluster] }

MkImage(v) ==
    BootSector
    \o PadTo(Flatten(<< EOC_HIGH, EOC, EOC, EOC, EOC, Link(8), v.fat6, Link(9),
                        EOC_HIGH, v.fat9 >>),
             ImgGeometry.num_fats * ImgGeometry.sectors_per_fat
             * ImgGeometry.bytes_per_sector, 0)
    \o DirCluster(<< LfnEntry(65, LfnUnits(Names.NOTES),
                              lfn_checksum(PadTo(Names.NOTES_SHORT, 8, SPACE) \o Names.TXT)),
                     ShortEntry(Names.NOTES_SHORT, Names.TXT, 32, 5, 130),
                     ShortEntry(Names.DOCS, << >>, ATTR_DIRECTORY, 3, 0) >>)
    \o DirCluster(<< ShortEntry(Names.DOT, << >>, ATTR_DIRECTORY, 3, 0),
                     ShortEntry(Names.DOTDOT, << >>, ATTR_DIRECTORY, v.dotdot, 0),
                     ShortEntry(Names.SUB, << >>, ATTR_DIRECTORY, v.startSub, 0),
                     ShortEntry(Names.A, Names.TXT, 32, 6, v.sizeA) >>)
    \o DirCluster(<< ShortEntry(Names.DOT, << >>, ATTR_DIRECTORY, 4, 0),
                     ShortEntry(Names.DOTDOT, << >>, ATTR_DIRECTORY, 3, 0),
                     ShortEntry(Names.B, << >>, 32, v.startB, v.sizeB) >>)
    \o ClusterText(5, FALSE) \o ClusterText(6, v.bad) \o ClusterText(7, FALSE)
    \o ClusterText(8, FALSE) \o ClusterText(9, FALSE)


(***************************************************************************)
(* Directories as a FAT32 driver writes them, one cluster long.  A         *)
(* directory is a sequence of items; an item is a file or subdirectory     *)
(* (its short entry, after the chunks of its long name when it has one), a *)
(* deleted entry, a volume label, a long-name chunk left without its short *)
(* entry (unflagged, or flagged 0x40 and carrying the checksum of A.TXT),  *)
(* or the end mark.                                                        *)
(***************************************************************************)
\* the letters long names are made of: UTF-16 units and UTF-8 bytes of
\* "a", e-acute, the euro sign and an emoji outside the basic plane
Letters ==
    << [units |-> << 97 >>, utf8 |-> << 97 >>],
       [units |-> << 233 >>, utf8 |-> << 195, 169 >>],
       [units |-> << 8364 >>, utf8 |-> << 226, 130, 172 >>],
       [units |-> << 55357, 56832 >>, utf8 |-> << 240, 159, 152, 128 >>] >>

\* the name of len letters that starts at letter off and moves on by step
LongName(len, step, off) == [i \in 1..len |-> ((i * step + off) % Len(Letters)) + 1]

UnitsOf(name) == Flatten([i \in 1..Len(name) |-> Letters[name[i]].units])
Utf8Of(name) == Flatten([i \in 1..Len(name) |-> Letters[name[i]].utf8])

\* chk says how the long name was stored: "good" is the standard sequence,
\* "bad" carries another checksum, "none" has no chunk flagged 0x40,
\* "undecodable" ends in a low surrogate that follows no high one
File(long, chk, base, ext, attr, cluster, size) ==
    [t |-> "file", long |-> long, chk |-> chk, base |-> base, ext |-> ext,
     attr |-> attr, cluster |-> cluster, size |-> size]

FileUnits(item) ==
    IF item.chk = "undecodable" THEN Append(UnitsOf(item.long), 56832)
    ELSE UnitsOf(item.long)

\* the chunks of a long name of the given units, as stored: the one with
\* the highest sequence number first, flagged 0x40 when flagged; 13 units a
\* chunk; 0x0000 and then 0xFFFF fill the last chunk of the name
LfnChunks(units, chksum, flagged) ==
    LET n == (Len(units) + 12) \div 13
        padded == IF Len(units) % 13 = 0 THEN units
                  ELSE PadTo(Append(units, 0), 13 * n, 65535)
    IN  [k \in 1..n |->
            LfnEntry((IF k = 1 /\ flagged THEN 64 ELSE 0) + (n - k + 1),
                     SubSeq(padded, 13 * (n - k) + 1, 13 * (n - k + 1)),
                     chksum)]

\* the 32-byte chunks of an item
ChunksOf(item) ==
    IF item.t = "file"
    THEN LET short == ShortEntry(item.base, item.ext, item.attr, item.cluster, item.size)
             sum == lfn_checksum(SubSeq(short, 1, 11))
         IN  (IF item.long = << >> THEN << >>
              ELSE LfnChunks(FileUnits(item),
                             IF item.chk = "bad" THEN (sum + 1) % 256 ELSE sum,
                             item.chk # "none"))
             \o << short >>
    ELSE IF item.t = "deleted"
    THEN << << DELETED_MARK >> \o Tail(ShortEntry(Names.B, << >>, 32, 7, 9)) >>
    ELSE IF item.t = "label"
    THEN << ShortEntry(Names.SUB, << >>, ATTR_VOLUME_ID, 0, 0) >>
    ELSE IF item.t = "orphan"
    THEN << LfnEntry(2, LfnUnits(Names.NOPE), 0) >>
    ELSE IF item.t = "stray"
    THEN << LfnEntry(65, LfnUnits(Names.NOPE),
                     lfn_checksum(PadTo(Names.A, 8, SPACE) \o Names.TXT)) >>
    ELSE << Zeros(ENTRY_SIZE) >>

\* number of 32-byte chunks of a directory cluster
DirSlots == ImgClusterBytes \div ENTRY_SIZE

DirChunks(items) == Flatten([i \in 1..Len(items) |-> ChunksOf(items[i])])

\* the items directories are put together from
Menu ==
    { File(<< >>, "good", Names.A, Names.TXT, 32, 6, 5),
      File(<< >>, "good", Names.DOCS, << >>, ATTR_DIRECTORY, 3, 0),
      [t |-> "deleted"], [t |-> "label"], [t |-> "orphan"], [t |-> "stray"],
      [t |-> "end"] }
    \cup { File(LongName(4, 1, 0), chk, Names.NOTES_SHORT, Names.TXT, 32, 5, 130) :
             chk \in {"good", "bad", "none", "undecodable"} }

\* the directories of up to DirSlots chunks made of items of the menu, and
\* the directories of one file with a long name of up to DirSlots - 1 chunks
DirsWritten ==
    { d \in UNION {[1..n -> Menu] : n \in 0..DirSlots} : Len(DirChunks(d)) <= DirSlots }
    \cup { << f >> : f \in
            { g \in { File(LongName(len, step, off), chk, Names.SUB, << >>,
                           ATTR_DIRECTORY, 4, 0) :
                        len \in 1..(13 * (DirSlots - 1)), step \in 0..1,
                        off \in 1..Len(Letters),
                        chk \in {"good", "bad", "none", "undecodable"} } :
                Len(FileUnits(g)) <= 13 * (DirSlots - 1) } }

\* the image whose root directory, cluster 2, holds the items
DirImage(items) ==
    BootSector
    \o PadTo(Flatten(<< EOC_HIGH, EOC, EOC >>),
             ImgGeometry.num_fats * ImgGeometry.sectors_per_fat
             * ImgGeometry.bytes_per_sector, 0)
    \o DirCluster(DirChunks(items))

(***************************************************************************)
(* State of the reader and of the shell session when none is running, and  *)
(* the records the steps leave behind                                      *)
(***************************************************************************)
NoFs ==
    [disk |-> << >>, bytes_per_sector |-> 0, sectors_per_cluster |-> 0,
     fat_sector |-> 0, data_sector |-> 0, root_cluster |-> 0]

NoFile == FileInfo_new(<< >>, FALSE, 0, 0)

NoRf ==
    [path |-> << >>, cur |-> None, caller |-> "", file |-> NoFile,
     data |-> << >>, cluster |-> 0, turns |-> 0]

\* the outcome of a finished call: ok with the content or the listing, the
\* error returned, the message cat printed, or the panic that ended it; it
\* is NoOut while a call is running
Out(op, path, cur, ok, err, msg, content, listing, panic) ==
    [op |-> op, path |-> path, cur |-> cur, ok |-> ok, err |-> err, msg |-> msg,
     content |-> content, listing |-> listing, panic |-> panic]

NoOut == Out("none", << >>, None, FALSE, "", "", << >>, << >>, "")

\* nothing written: no image yet
NoWritten == [kind |-> "none"]

NoWalk ==
    [segs |-> << >>, abs |-> FALSE, start |-> 0, k |-> 0, cluster |-> 0,
     last |-> Ret(None), whole |-> [done |-> FALSE, res |-> Ret(None)]]

InitFsOff ==
    /\ fs = NoFs
    /\ overflow_checks = TRUE
    /\ current_cluster = 0
    /\ fs_pc = "off"
    /\ rf = NoRf
    /\ fs_out = NoOut
    /\ walk = NoWalk
    /\ written = NoWritten

\* Fat32FileSystem::new(disk) and ShellSession::new on it: the boot fields
\* are decoded and the session starts in the root directory
ShellSession_new(disk) ==
    /\ fs_pc = "off"
    /\ fs' = Fat32FileSystem_new(disk)
    /\ current_cluster' = fs'.root_cluster
    /\ fs_pc' = "idle"
    /\ UNCHANGED << overflow_checks, rf, fs_out, walk, written >>
    /\ UNCHANGED slabVars

(***************************************************************************)
(* ShellSession::ls, cd, ls_entries                                        *)
(***************************************************************************)
\* the entries ls prints and ls_entries returns: all but "." and ".."
visible(files) == SelectSeq(files, LAMBDA f : f.name # Names.DOT /\ f.name # Names.DOTDOT)

\* ls leaving the session in the directory it listed
ls_moves_session(path) ==
    /\ fs_pc = "idle"
    /\ \E file \in {IF path.some THEN parse_path(fs, path.val, Some(current_cluster))
                     ELSE Ret(None)} :
       LET cluster == IF path.some THEN file.val.val.start_cluster ELSE current_cluster
           p == IF path.some THEN path.val ELSE << >>
       IN  IF file.panic # ""
           THEN /\ fs_out' = Out("ls", p, path, FALSE, "", "", << >>, << >>, file.panic)
                /\ fs_pc' = "panicked"
                /\ UNCHANGED current_cluster
           ELSE IF path.some /\ ~file.val.some
           THEN /\ fs_out' = Out("ls", p, path, FALSE, "Entry not found", "", << >>, << >>, "")
                /\ UNCHANGED << fs_pc, current_cluster >>
           ELSE \E files \in {list_directory_entries(fs, cluster)} :
                IF files.panic # ""
                THEN /\ fs_out' = Out("ls", p, path, FALSE, "", "", << >>, << >>, files.panic)
                     /\ fs_pc' = "panicked"
                     /\ UNCHANGED current_cluster
                ELSE /\ fs_out' = Out("ls", p, path, TRUE, "", "", << >>,
                                      visible(files.val), "")
                     /\ current_cluster' = cluster
                     /\ UNCHANGED fs_pc
    /\ UNCHANGED << fs, overflow_checks, rf, walk, written >>
    /\ UNCHANGED slabVars

ls(path) ==
    /\ fs_pc = "idle"
    /\ \E file \in {IF path.some THEN parse_path(fs, path.val, Some(current_cluster))
                     ELSE Ret(None)} :
       LET cluster == IF path.some THEN file.val.val.start_cluster ELSE current_cluster
           p == IF path.some THEN path.val ELSE << >>
       IN  IF file.panic # ""
           THEN /\ fs_out' = Out("ls", p, path, FALSE, "", "", << >>, << >>, file.panic)
                /\ fs_pc' = "panicked"
           ELSE IF path.some /\ ~file.val.some
           THEN /\ fs_out' = Out("ls", p, path, FALSE, "Entry not found", "", << >>, << >>, "")
                /\ UNCHANGED fs_pc
           ELSE \E files \in {list_directory_entries(fs, cluster)} :
                IF files.panic # ""
                THEN /\ fs_out' = Out("ls", p, path, FALSE, "", "", << >>, << >>, files.panic)
                     /\ fs_pc' = "panicked"
                ELSE /\ fs_out' = Out("ls", p, path, TRUE, "", "", << >>,
                                      visible(files.val), "")
                     /\ UNCHANGED fs_pc
    /\ UNCHANGED << fs, overflow_checks, current_cluster, rf, walk, written >>
    /\ UNCHANGED slabVars

\* cd moving into whatever entry the path resolves to
cd_into_any_entry(path) ==
    /\ fs_pc = "idle"
    /\ \E file \in {parse_path(fs, path, Some(current_cluster))} :
       LET cur == Some(current_cluster)
       IN  IF file.panic # ""
           THEN /\ fs_out' = Out("cd", path, cur, FALSE, "", "", << >>, << >>, file.panic)
                /\ fs_pc' = "panicked"
                /\ UNCHANGED current_cluster
           ELSE IF ~file.val.some
           THEN /\ fs_out' = Out("cd", path, cur, FALSE, "Entry not found", "", << >>, << >>, "")
                /\ UNCHANGED << fs_pc, current_cluster >>
           ELSE /\ current_cluster' = file.val.val.start_cluster
                /\ fs_out' = Out("cd", path, cur, TRUE, "", "", << >>, << >>, "")
                /\ UNCHANGED fs_pc
    /\ UNCHANGED << fs, overflow_checks, rf, walk, written >>
    /\ UNCHANGED slabVars

cd(path) ==
    /\ fs_pc = "idle"
    /\ \E file \in {parse_path(fs, path, Some(current_cluster))} :
       LET cur == Some(current_cluster)
       IN  IF file.panic # ""
           THEN /\ fs_out' = Out("cd", path, cur, FALSE, "", "", << >>, << >>, file.panic)
                /\ fs_pc' = "panicked"
                /\ UNCHANGED current_cluster
           ELSE IF ~file.val.some
           THEN /\ fs_out' = Out("cd", path, cur, FALSE, "Entry not found", "", << >>, << >>, "")
                /\ UNCHANGED << fs_pc, current_cluster >>
           ELSE IF ~file.val.val.is_directory
           THEN /\ fs_out' = Out("cd", path, cur, FALSE, "Not a directory", "", << >>, << >>, "")
                /\ UNCHANGED << fs_pc, current_cluster >>
           ELSE /\ current_cluster' = file.val.val.start_cluster
                /\ fs_out' = Out("cd", path, cur, TRUE, "", "", << >>, << >>, "")
                /\ UNCHANGED fs_pc
    /\ UNCHANGED << fs, overflow_checks, rf, walk, written >>
    /\ UNCHANGED slabVars

ls_entries ==
    /\ fs_pc = "idle"
    /\ \E files \in {list_directory_entries(fs, current_cluster)} :
       LET cur == Some(current_cluster)
       IN  IF files.panic # ""
           THEN /\ fs_out' = Out("ls_entries", << >>, cur, FALSE, "", "", << >>, << >>,
                                 files.panic)
                /\ fs_pc' = "panicked"
           ELSE /\ fs_out' = Out("ls_entries", << >>, cur, TRUE, "", "", << >>,
                                 visible(files.val), "")
                /\ UNCHANGED fs_pc
    /\ UNCHANGED << fs, overflow_checks, current_cluster, rf, walk, written >>
    /\ UNCHANGED slabVars

\* fs.read_cluster(cluster_id) called on its own, as the tests do
read_cluster_call(cluster_id) ==
    /\ fs_pc = "idle"
    /\ \E data \in {read_cluster(fs, cluster_id)} :
       IF data.panic # ""
       THEN /\ fs_out' = Out("read_cluster", << >>, Some(cluster_id), FALSE, "", "",
                             << >>, << >>, data.panic)
            /\ fs_pc' = "panicked"
       ELSE /\ fs_out' = Out("read_cluster", << >>, Some(cluster_id), TRUE, "", "",
                             data.val, << >>, "")
            /\ UNCHANGED fs_pc
    /\ UNCHANGED << fs, overflow_checks, current_cluster, rf, walk, written >>
    /\ UNCHANGED slabVars

\* fs.read_fat_entry(cluster_id) called on its own; the outcome holds the
\* u32 returned as its one-element content
read_fat_entry_call(cluster_id) ==
    /\ fs_pc = "idle"
    /\ \E next \in {read_fat_entry(fs, cluster_id)} :
       IF next.panic # ""
       THEN /\ fs_out' = Out("read_fat_entry", << >>, Some(cluster_id), FALSE, "", "",
                             << >>, << >>, next.panic)
            /\ fs_pc' = "panicked"
       ELSE /\ fs_out' = Out("read_fat_entry", << >>, Some(cluster_id), TRUE, "", "",
                             << next.val >>, << >>, "")
            /\ UNCHANGED fs_pc
    /\ UNCHANGED << fs, overflow_checks, current_cluster, rf, walk, written >>
    /\ UNCHANGED slabVars

\* assemble_lfn(&lfn_fragments) called on the fragments written; the
\* outcome is Ok with the name, or not Ok for None
assemble_lfn_call ==
    /\ written.kind = "frags"
    /\ \E name \in {assemble_lfn(written.frags)} :
          fs_out' = Out("assemble_lfn", << >>, None, name.some, "", "",
                        IF name.some THEN name.val ELSE << >>, << >>, "")
    /\ UNCHANGED << fs, overflow_checks, current_cluster, fs_pc, rf, walk, written >>
    /\ UNCHANGED slabVars

\* list_directory_entries(&fs, cluster) called on its own, as the tests do
list_directory(cluster) ==
    /\ fs_pc = "idle"
    /\ \E files \in {list_directory_entries(fs, cluster)} :
       IF files.panic # ""
       THEN /\ fs_out' = Out("list_directory_entries", << >>, Some(cluster), FALSE, "", "",
                             << >>, << >>, files.panic)
            /\ fs_pc' = "panicked"
       ELSE /\ fs_out' = Out("list_directory_entries", << >>, Some(cluster), TRUE, "", "",
                             << >>, files.val, "")
            /\ UNCHANGED fs_pc
    /\ UNCHANGED << fs, overflow_checks, current_cluster, rf, walk, written >>
    /\ UNCHANGED slabVars

(***************************************************************************)
(* Fat32FileSystem::read_file, called directly or by ShellSession::cat     *)
(***************************************************************************)
\* cat handing the error of read_file on to its own caller
ReadErr_returned_by_cat(caller, path, cur, e) ==
    Out(caller, path, cur, FALSE, e, "", << >>, << >>, "")

\* what the caller gets when read_file returns Err(e): cat prints e and
\* returns Ok(()), a direct caller receives the error
ReadErr(caller, path, cur, e) ==
    IF caller = "cat" THEN Out("cat", path, cur, TRUE, "", e, << >>, << >>, "")
    ELSE Out(caller, path, cur, FALSE, e, "", << >>, << >>, "")

\* read_file up to its loop
read_file_call(path, cur, caller) ==
    /\ fs_pc = "idle"
    /\ \E file \in {parse_path(fs, path, cur)} :
       IF file.panic # ""
       THEN /\ fs_out' = Out(caller, path, cur, FALSE, "", "", << >>, << >>, file.panic)
            /\ fs_pc' = "panicked"
            /\ UNCHANGED rf
       ELSE IF ~file.val.some
       THEN /\ fs_out' = ReadErr(caller, path, cur, "File not found")
            /\ UNCHANGED << fs_pc, rf >>
       ELSE IF file.val.val.is_directory
       THEN /\ fs_out' = ReadErr(caller, path, cur, "Not a file")
            /\ UNCHANGED << fs_pc, rf >>
       ELSE /\ rf' = [path |-> path, cur |-> cur, caller |-> caller,
                      file |-> file.val.val, data |-> << >>,
                      cluster |-> file.val.val.start_cluster, turns |-> 0]
            /\ fs_pc' = "read_loop"
            /\ fs_out' = NoOut
    /\ UNCHANGED << fs, overflow_checks, current_cluster, walk, written >>
    /\ UNCHANGED slabVars

read_file(path, cur) == read_file_call(path, cur, "read_file")

cat(path) == read_file_call(path, None, "cat")

\* disk.rs's read_file up to its loop: whatever entry the path resolves to
\* is read, a directory too
disk_read_file(path, cur) ==
    /\ fs_pc = "idle"
    /\ \E file \in {disk_parse_path(fs, path, cur)} :
       IF file.panic # ""
       THEN /\ fs_out' = Out("disk_read_file", path, cur, FALSE, "", "", << >>, << >>,
                             file.panic)
            /\ fs_pc' = "panicked"
            /\ UNCHANGED rf
       ELSE IF ~file.val.some
       THEN /\ fs_out' = ReadErr("disk_read_file", path, cur, "File not found")
            /\ UNCHANGED << fs_pc, rf >>
       ELSE /\ rf' = [path |-> path, cur |-> cur, caller |-> "disk_read_file",
                      file |-> file.val.val, data |-> << >>,
                      cluster |-> file.val.val.start_cluster, turns |-> 0]
            /\ fs_pc' = "read_loop"
            /\ fs_out' = NoOut
    /\ UNCHANGED << fs, overflow_checks, current_cluster, walk, written >>
    /\ UNCHANGED slabVars

\* one turn of the loop of read_file
read_file_loop ==
    /\ fs_pc = "read_loop"
    /\ rf.turns < MaxChain
    /\ \E data \in {read_cluster(fs, rf.cluster)}, next \in {read_fat_entry(fs, rf.cluster)} :
       LET panic == IF data.panic # "" THEN data.panic ELSE next.panic
       IN  IF panic # ""
           THEN /\ fs_out' = Out(rf.caller, rf.path, rf.cur, FALSE, "", "", << >>, << >>,
                                 panic)
                /\ fs_pc' = "panicked"
                /\ UNCHANGED rf
           ELSE /\ rf' = [rf EXCEPT !.data = rf.data \o data.val,
                                    !.turns = rf.turns + 1,
                                    !.cluster = IF next.val >= END_OF_CHAIN
                                                THEN rf.cluster ELSE next.val]
                /\ fs_pc' = IF next.val >= END_OF_CHAIN THEN "read_done" ELSE "read_loop"
                /\ UNCHANGED fs_out
    /\ UNCHANGED << fs, overflow_checks, current_cluster, walk, written >>
    /\ UNCHANGED slabVars

\* read_file after its loop
read_file_return ==
    /\ fs_pc = "read_done"
    /\ \E data \in {truncate(rf.data, rf.file.size)} : \E content \in {from_utf8(data)} :
       fs_out' = IF content.some
                 THEN Out(rf.caller, rf.path, rf.cur, TRUE, "", "", content.val, << >>, "")
                 ELSE ReadErr(rf.caller, rf.path, rf.cur, "Invalid UTF-8 content")
    /\ fs_pc' = "idle"
    /\ rf' = NoRf
    /\ UNCHANGED << fs, overflow_checks, current_cluster, walk, written >>
    /\ UNCHANGED slabVars

(***************************************************************************)
(* A path resolved twice: by one call of parse_path, and one segment at a  *)
(* time, each segment from the start cluster of the entry before it        *)
(***************************************************************************)
RECURSIVE JoinFrom(_, _)
JoinFrom(segs, i) ==
    IF i > Len(segs) THEN << >>
    ELSE segs[i] \o (IF i < Len(segs) THEN << SLASH >> ELSE << >>) \o JoinFrom(segs, i + 1)

JoinPath(segs, abs) == (IF abs THEN << SLASH >> ELSE << >>) \o JoinFrom(segs, 1)

IsDirEntry(r) == r.panic = "" /\ r.val.some /\ r.val.val.is_directory

descend_step ==
    /\ fs_pc = "walk"
    /\ walk.k < Len(walk.segs)
    /\ walk.k = 0 \/ IsDirEntry(walk.last)
    /\ \E r \in {parse_path(fs, IF walk.k = 0 /\ walk.abs
                                   THEN << SLASH >> \o walk.segs[walk.k + 1]
                                   ELSE walk.segs[walk.k + 1],
                               Some(walk.cluster))} :
           walk' = [walk EXCEPT !.k = walk.k + 1,
                                !.last = r,
                                !.cluster = IF r.panic = "" /\ r.val.some
                                            THEN r.val.val.start_cluster
                                            ELSE walk.cluster]
    /\ UNCHANGED << fs, overflow_checks, current_cluster, fs_pc, rf, fs_out, written >>
    /\ UNCHANGED slabVars

resolve_path ==
    /\ fs_pc = "walk"
    /\ ~walk.whole.done
    /\ walk' = [walk EXCEPT !.whole =
                  [done |-> TRUE,
                   res |-> parse_path(fs, JoinPath(walk.segs, walk.abs), Some(walk.start))]]
    /\ UNCHANGED << fs, overflow_checks, current_cluster, fs_pc, rf, fs_out, written >>
    /\ UNCHANGED slabVars


(***************************************************************************)
(* Specifications                                                          *)
(***************************************************************************)
Boot == init(HeapStartPage * PAGE_SIZE, HeapPages * PAGE_SIZE)

Init == InitAlloc /\ InitFsOff

Next ==
    \/ Boot
    \/ alloc_call(1, MaxLive, AllocSizes)
    \/ alloc_lock(1)
    \/ alloc_large(1)
    \/ alloc_slab(1)
    \/ alloc_obj(1)
    \/ dealloc_call(1)
    \/ dealloc_lock(1)
    \/ dealloc_body(1)

Spec == Init /\ [][Next]_vars

\* One size class (and one large size), more allocations alive: slabs of the
\* 1024-byte class fill up and several of them are partial at once.
DeepSizes == {1024, 5000}

NextDeep ==
    \/ Boot
    \/ alloc_call(1, MaxLiveDeep, DeepSizes)
    \/ alloc_lock(1)
    \/ alloc_large(1)
    \/ alloc_slab(1)
    \/ alloc_obj(1)
    \/ dealloc_call(1)
    \/ dealloc_lock(1)
    \/ dealloc_body(1)

SpecDeep == Init /\ [][NextDeep]_vars

\* The sizes around MAX_SLAB_SIZE: the one-object class, the smallest large
\* request and a two-page request.
LargeEdgeSizes == {2048, 2049, 5000}

NextLarge ==
    \/ Boot
    \/ alloc_call(1, MaxLive, LargeEdgeSizes)
    \/ alloc_lock(1)
    \/ alloc_large(1)
    \/ alloc_slab(1)
    \/ alloc_obj(1)
    \/ dealloc_call(1)
    \/ dealloc_lock(1)
    \/ dealloc_body(1)

SpecLarge == Init /\ [][NextLarge]_vars

\* Two small classes (202 objects and one object per slab) and a large size
\* that uses the heap up before or after their caches exist.
OomSizes == {16, 2048, 5000}

NextOom ==
    \/ Boot
    \/ alloc_call(1, MaxLive, OomSizes)
    \/ alloc_lock(1)
    \/ alloc_large(1)
    \/ alloc_slab(1)
    \/ alloc_obj(1)
    \/ dealloc_call(1)
    \/ dealloc_lock(1)
    \/ dealloc_body(1)

SpecOom == Init /\ [][NextOom]_vars

\* Several threads calling through Locked<SlabAllocator>.
MTSizes == {16, 2048, 5000}

NextMT ==
    \/ Boot
    \/ \E t \in Threads :
          \/ alloc_call(t, MaxLiveMT, MTSizes)
          \/ alloc_lock(t)
          \/ alloc_large(t)
          \/ alloc_slab(t)
          \/ alloc_obj(t)
          \/ dealloc_call(t)
          \/ dealloc_lock(t)
          \/ dealloc_body(t)

SpecMT == Init /\ [][NextMT]_vars

\* The steps of thread t inside its call: the acquisition of the lock, which
\* waits for it to be free, and the steps of a body, which wait for nothing
LockStep(t) == alloc_lock(t) \/ dealloc_lock(t)

BodyStep(t) == alloc_large(t) \/ alloc_slab(t) \/ alloc_obj(t) \/ dealloc_body(t)

\* The threads call with the one-object class and one large size: a body
\* returns early, serves an object, or finds the heap exhausted.
FairSizes == {2048, 5000}

NextFair ==
    \/ Boot
    \/ \E t \in Threads :
          \/ alloc_call(t, MaxLiveMT, FairSizes)
          \/ alloc_lock(t)
          \/ alloc_large(t)
          \/ alloc_slab(t)
          \/ alloc_obj(t)
          \/ dealloc_call(t)
          \/ dealloc_lock(t)
          \/ dealloc_body(t)

\* Fair scheduling of the threads: a thread inside a body keeps running, and
\* a thread that finds the lock free again and again takes it in the end.
SpecFair ==
    /\ Init
    /\ [][NextFair]_vars
    /\ \A t \in Threads : WF_vars(BodyStep(t)) /\ SF_vars(LockStep(t))

\* One request size for each of the nine classes, 8 << idx for idx in 0..8:
\* every class gets its cache and a slab in some run.
ClassSizes == {8, 16, 32, 64, 128, 256, 512, 1024, 2048}

NextClasses ==
    \/ Boot
    \/ alloc_call(1, MaxLiveClasses, ClassSizes)
    \/ alloc_lock(1)
    \/ alloc_slab(1)
    \/ alloc_obj(1)
    \/ dealloc_call(1)
    \/ dealloc_lock(1)
    \/ dealloc_body(1)

SpecClasses == Init /\ [][NextClasses]_vars

(***************************************************************************)
(* The reader and a shell session on a mounted image                       *)
(***************************************************************************)
CdPaths ==
    { Names.DOCS, Names.SUB, Names.DOTDOT, Names.DOT, << SLASH >>, Names.NOTES, Names.NOPE,
      Names.A_TXT, JoinPath(<< Names.DOCS, Names.SUB >>, TRUE) }
LsPaths ==
    { None, Some(Names.DOCS), Some(Names.SUB), Some(Names.NOPE),
      Some(JoinPath(<< Names.DOTDOT, Names.DOCS >>, FALSE)) }
ReadPaths ==
    { Names.A_TXT, Names.B, Names.NOTES, Names.NOPE, JoinPath(<< Names.DOCS >>, TRUE),
      JoinPath(<< Names.DOCS, Names.A_TXT >>, TRUE), JoinPath(<< Names.DOCS, Names.SUB, Names.B >>, TRUE) }

InitFS ==
    /\ InitAlloc
    /\ written \in Variants
    /\ fs = Fat32FileSystem_new(MkImage(written))
    /\ overflow_checks \in BOOLEAN
    /\ current_cluster = fs.root_cluster
    /\ fs_pc = "idle"
    /\ rf = NoRf
    /\ fs_out = NoOut
    /\ walk = NoWalk

NextFS ==
    \/ \E path \in LsPaths : ls(path)
    \/ \E path \in CdPaths : cd(path)
    \/ ls_entries
    \/ \E path \in ReadPaths : cat(path)
    \/ \E path \in ReadPaths : \E cur \in {None, Some(current_cluster)} : read_file(path, cur)
    \/ \E path \in ReadPaths : \E cur \in {None, Some(current_cluster)} :
          disk_read_file(path, cur)
    \/ read_file_loop
    \/ read_file_return
    \/ \E cluster_id \in 0..(Len(fs.disk) \div ImgClusterBytes + 1) :
          read_cluster_call(cluster_id)

SpecFS == InitFS /\ [][NextFS]_vars

(***************************************************************************)
(* FAT entries read one by one on a mounted image                          *)
(***************************************************************************)
\* the cluster numbers asked for: every 4-byte entry from the start of the
\* FAT to the end of the image, and some past it
FatIndexes == 0..(Len(fs.disk) \div 4)

NextFat == \E cluster_id \in FatIndexes : read_fat_entry_call(cluster_id)

SpecFat == InitFS /\ [][NextFat]_vars

\* most segments of the paths that are resolved both ways
MaxSegs == 3
Segs == { Names.DOCS, Names.SUB, Names.DOTDOT, Names.DOT, Names.B, Names.NOTES }
SegLists == UNION {[1..n -> Segs] : n \in 2..MaxSegs}

InitPath ==
    /\ InitAlloc
    /\ written \in PathVariants
    /\ fs = Fat32FileSystem_new(MkImage(written))
    /\ overflow_checks \in BOOLEAN
    /\ current_cluster = fs.root_cluster
    /\ fs_pc = "walk"
    /\ rf = NoRf
    /\ fs_out = NoOut
    /\ \E segs \in SegLists, abs \in BOOLEAN, start \in 2..4 :
          walk = [NoWalk EXCEPT !.segs = segs, !.abs = abs, !.start = start,
                                !.cluster = start]

NextPath ==
    \/ descend_step
    \/ resolve_path

SpecPath == InitPath /\ [][NextPath]_vars

(***************************************************************************)
(* Listing the root directory of an image made from a written directory    *)
(***************************************************************************)
InitDir ==
    /\ InitAlloc
    /\ \E items \in DirsWritten : written = [kind |-> "dir", items |-> items]
    /\ fs = Fat32FileSystem_new(DirImage(written.items))
    /\ overflow_checks = TRUE
    /\ current_cluster = fs.root_cluster
    /\ fs_pc = "idle"
    /\ rf = NoRf
    /\ fs_out = NoOut
    /\ walk = NoWalk

NextDir ==
    \/ list_directory(fs.root_cluster)
    \/ ls_entries

SpecDir == InitDir /\ [][NextDir]_vars

(***************************************************************************)
(* Long names assembled from fragment lists                                *)
(***************************************************************************)
\* most fragments of a list
MaxFrags == 2

\* the units of a fragment: letters, the 0x0000 terminator and 0xFFFF fill
\* in every position
FragUnits == [1..2 -> {97, 98, 0, 65535}]

\* the fragment lists process_lfn_entry can leave behind: pairs of a
\* sequence number and units, in any order, no sequence number twice
FragLists ==
    UNION { { f \in [1..n -> (1..MaxFrags) \X FragUnits] :
                \A i, j \in 1..n : f[i][1] = f[j][1] => i = j } : n \in 1..MaxFrags }

InitLfn ==
    /\ InitAlloc
    /\ \E f \in FragLists : written = [kind |-> "frags", frags |-> f]
    /\ fs = NoFs
    /\ overflow_checks = TRUE
    /\ current_cluster = 0
    /\ fs_pc = "off"
    /\ rf = NoRf
    /\ fs_out = NoOut
    /\ walk = NoWalk

NextLfn == assemble_lfn_call

SpecLfn == InitLfn /\ [][NextLfn]_vars

(***************************************************************************)
(* Mounting a boot sector written from a geometry                          *)
(***************************************************************************)
\* the geometries written: those of the images above and of the tests'
\* image among them, and values that take more than one byte
Geometries ==
    [kind : {"boot"}, bytes_per_sector : {32, 512, 4096}, sectors_per_cluster : {1, 4, 128},
     reserved_sectors_count : {2, 32, 300}, num_fats : {1, 2},
     sectors_per_fat : {2, 32, 70000}, root_cluster : {2, 70000}]

\* the first bytes of the boot sector of geometry g: each field
\* little-endian at its offset 11, 13, 14, 16, 36, 44, zeros elsewhere
BootFields(g) ==
    Zeros(11) \o LE16(g.bytes_per_sector) \o << g.sectors_per_cluster >>
    \o LE16(g.reserved_sectors_count) \o << g.num_fats >> \o Zeros(19)
    \o LE32(g.sectors_per_fat) \o Zeros(4) \o LE32(g.root_cluster) \o Zeros(16)

InitBoot ==
    /\ InitAlloc
    /\ written \in Geometries
    /\ fs = NoFs
    /\ overflow_checks = TRUE
    /\ current_cluster = 0
    /\ fs_pc = "off"
    /\ rf = NoRf
    /\ fs_out = NoOut
    /\ walk = NoWalk

NextBoot == ShellSession_new(BootFields(written))

SpecBoot == InitBoot /\ [][NextBoot]_vars


(***************************************************************************)
(* Views of the allocator's memory used by the properties                  *)
(***************************************************************************)
RECURSIVE RingFrom(_, _, _, _)
RingFrom(nodes, head, n, fuel) ==
    IF n = head \/ fuel = 0 THEN {}
    ELSE {n} \cup RingFrom(nodes, head, nodes[n].next, fuel - 1)

\* the nodes linked on the ring of `head`, the head itself left out
Ring(head) ==
    RingFrom(list_nodes, head, list_nodes[head].next, Cardinality(DOMAIN list_nodes))

CacheSet == {node_caches[i] : i \in 0..(MAX_CLASSES - 1)} \ {NULL}

SlabsOfCache(c) == Ring(c + OFF_FULL) \cup Ring(c + OFF_PARTIAL) \cup Ring(c + OFF_FREE)

\* no call is inside its locked region
Quiescent == lock = 0

BodyPcs == {"alloc_body", "alloc_obj", "dealloc_body"}

PagesLeft == (page_alloc.end - page_alloc.next) \div PAGE_SIZE

\* ceil(a / b), stated without the code's (a + b - 1) / b
CeilDiv(a, b) == CHOOSE k \in 0..((a \div b) + 1) : k * b >= a /\ (k - 1) * b < a

\* what alloc(size) returns when run on the present memory
NextAlloc(size) ==
    LET r == alloc_select(AllocState, size)
    IN  alloc_object(r.st, r.cache, r.slab_node).obj

\* the class index of section 4.4 of the specification
RefIndex(size) == max(0, trailing_zeros(max(8, next_power_of_two(size))) - 3)

(***************************************************************************)
(* C1                                                                      *)
(***************************************************************************)
\* C1: between calls, in every cache, a slab is on slabs_full iff inuse = num,
\* on slabs_free iff inuse = 0 and on slabs_partial iff 0 < inuse < num.
C1_ListsPartitionByInuse ==
    Quiescent =>
        \A c \in CacheSet : \A s \in SlabsOfCache(c) :
            /\ (s \in Ring(c + OFF_FULL)) <=> (slabs[s].inuse = caches[c].num)
            /\ (s \in Ring(c + OFF_FREE)) <=> (slabs[s].inuse = 0)
            /\ (s \in Ring(c + OFF_PARTIAL)) <=>
                   (0 < slabs[s].inuse /\ slabs[s].inuse < caches[c].num)

(***************************************************************************)
(* C2                                                                      *)
(***************************************************************************)
\* the length of the slot alloc handed out for allocation a
SlotLength(a) ==
    IF a.size > MAX_SLAB_SIZE
    THEN CeilDiv(a.size, PAGE_SIZE) * PAGE_SIZE
    ELSE caches[node_caches[CacheIndex(a.size)]].obj_size

\* C2: the byte ranges [p, p + size) of the allocations alive at the same time
\* are pairwise disjoint, no address is held twice, and every slot is at least
\* as long as the size requested.
C2_LiveAllocationsDisjoint ==
    \A a \in BagToSet(live) :
        /\ CopiesIn(a, live) = 1
        /\ SlotLength(a) >= a.size
        /\ \A b \in BagToSet(live) :
              a # b => (a.ptr + a.size <= b.ptr \/ b.ptr + b.size <= a.ptr)

(***************************************************************************)
(* C3                                                                      *)
(***************************************************************************)
\* C3: for every request size in 1..2048 the cache alloc selects is the one at
\* index max(0, trailing_zeros(max(8, next_pow2(size))) - 3).
C3_IndexIsReference ==
    \A t \in Threads :
        (pc[t] = "alloc_obj" /\ call[t].size \in 1..MAX_SLAB_SIZE) =>
            /\ CacheIndex(call[t].size) = RefIndex(call[t].size)
            /\ loc[t].cache = node_caches[RefIndex(call[t].size)]

(***************************************************************************)
(* C4                                                                      *)
(***************************************************************************)
LastWasSmallDealloc ==
    /\ last.kind = "dealloc"
    /\ last.ptr # NULL
    /\ last.size <= MAX_SLAB_SIZE
    /\ Quiescent
    /\ panicked = ""

LastSlabIsPartial ==
    LET s == last.ptr - (last.ptr % PAGE_SIZE)
        c == node_caches[CacheIndex(last.size)]
    IN  0 < slabs[s].inuse /\ slabs[s].inuse < caches[c].num

LastSlabHeadsPartial ==
    LET s == last.ptr - (last.ptr % PAGE_SIZE)
        c == node_caches[CacheIndex(last.size)]
    IN  list_nodes[c + OFF_PARTIAL].next = s

\* C4 as claimed: when dealloc(p, s) leaves p's slab partial, an alloc(s)
\* issued immediately afterwards returns p.
C4_LifoWhenSlabPartial ==
    (LastWasSmallDealloc /\ LastSlabIsPartial) => NextAlloc(last.size) = last.ptr

\* C4 as amended: when dealloc(p, s) leaves p's slab partial and first on
\* slabs_partial, an alloc(s) issued immediately afterwards returns p.
C4_LifoWhenSlabHeadsPartial ==
    (LastWasSmallDealloc /\ LastSlabIsPartial /\ LastSlabHeadsPartial)
        => NextAlloc(last.size) = last.ptr

\* a dealloc has left its slab partial and first of two partial slabs
C4_Witness ==
    /\ LastWasSmallDealloc
    /\ LastSlabIsPartial
    /\ LastSlabHeadsPartial
    /\ Cardinality(Ring(node_caches[CacheIndex(last.size)] + OFF_PARTIAL)) >= 2

(***************************************************************************)
(* C5                                                                      *)
(***************************************************************************)
LargeAllocReturns(t) ==
    pc[t] = "alloc_body" /\ call[t].size > MAX_SLAB_SIZE /\ pc'[t] = "idle"

\* C5: for size > 2048 alloc returns the cursor and advances it by exactly
\* ceil(size / 4096) pages when that many pages remain, and otherwise returns
\* null leaving the cursor and all caches unchanged; with 4 pages remaining
\* alloc(5000) succeeds, with 2 it succeeds, with none it returns null.
C5_LargeAllocBumpsCursor ==
    [][\A t \in Threads :
         LargeAllocReturns(t) =>
            LET n == CeilDiv(call[t].size, PAGE_SIZE) IN
            /\ IF n <= PagesLeft
               THEN /\ last'.ptr = page_alloc.next
                    /\ page_alloc'.next = page_alloc.next + n * PAGE_SIZE
                    /\ page_alloc'.end = page_alloc.end
                    /\ UNCHANGED << node_caches, list_nodes, caches, slabs, bufctl >>
               ELSE /\ last'.ptr = NULL
                    /\ UNCHANGED allocVars
            /\ (call[t].size = 5000 /\ PagesLeft \in {4, 2})
                  => (last'.ptr # NULL /\ PagesLeft' = PagesLeft - 2)
            /\ (call[t].size = 5000 /\ PagesLeft = 0) => last'.ptr = NULL
      ]_vars

\* two alloc(5000) have succeeded on a 4-page heap and the third returned null
C5_Witness ==
    /\ last = [kind |-> "alloc", size |-> 5000, ptr |-> NULL]
    /\ PagesLeft = 0
    /\ live = SetToBag({Allocation(HeapStartPage * PAGE_SIZE, 5000),
                        Allocation((HeapStartPage + 2) * PAGE_SIZE, 5000)})

(***************************************************************************)
(* C6                                                                      *)
(***************************************************************************)
SmallAllocSelects(t) ==
    pc[t] = "alloc_body" /\ call[t].size <= MAX_SLAB_SIZE /\ pc'[t] # pc[t]

NeedsCache(size) == node_caches[CacheIndex(size)] = NULL

NeedsSlab(size) ==
    LET c == node_caches[CacheIndex(size)]
    IN  /\ c # NULL
        /\ list_empty(list_nodes, c + OFF_PARTIAL)
        /\ list_empty(list_nodes, c + OFF_FREE)

\* C6 as claimed: with the PageBump exhausted, a small alloc that needs a page
\* (for the class's cache or for a new slab) does not abort and leaves the
\* allocator unchanged.
C6_SmallAllocOomReturnsNull ==
    [][\A t \in Threads :
         (SmallAllocSelects(t) /\ PagesLeft = 0
             /\ (NeedsCache(call[t].size) \/ NeedsSlab(call[t].size)))
            => (panicked' = "" /\ UNCHANGED allocVars)
      ]_vars

\* C6 as amended: with the PageBump exhausted, a small alloc that needs a page
\* aborts with the panic "OOM Cache" (no cache yet) or "OOM Slab" (no partial
\* or free slab) and leaves the allocator unchanged; with one page left and no
\* cache yet, the cache takes that page and stays installed and the call aborts
\* with "OOM Slab"; in every other case it does not abort, and a small alloc
\* never returns null.
C6_SmallAllocOomAborts ==
    /\ [][\A t \in Threads :
            SmallAllocSelects(t) =>
               LET size == call[t].size
                   idx == CacheIndex(size)
               IN
               CASE NeedsCache(size) /\ PagesLeft = 0 ->
                        /\ panicked' = "OOM Cache"
                        /\ pc'[t] = "panicked"
                        /\ UNCHANGED allocVars
                 [] NeedsCache(size) /\ PagesLeft = 1 ->
                        /\ panicked' = "OOM Slab"
                        /\ pc'[t] = "panicked"
                        /\ node_caches'[idx] = page_alloc.next
                        /\ PagesLeft' = 0
                 [] NeedsSlab(size) /\ PagesLeft = 0 ->
                        /\ panicked' = "OOM Slab"
                        /\ pc'[t] = "panicked"
                        /\ UNCHANGED allocVars
                 [] OTHER ->
                        /\ panicked' = ""
                        /\ pc'[t] = "alloc_obj"
         ]_vars
    /\ []((last.kind = "alloc" /\ last.size <= MAX_SLAB_SIZE) => last.ptr # NULL)

\* a small alloc found the heap exhausted when it had to grow its cache
C6_Witness ==
    /\ panicked = "OOM Slab"
    /\ PagesLeft = 0
    /\ \E t \in Threads : pc[t] = "panicked" /\ call[t].size <= MAX_SLAB_SIZE

(***************************************************************************)
(* C7                                                                      *)
(***************************************************************************)
MutualExclusion ==
    /\ Cardinality({t \in Threads : pc[t] \in BodyPcs}) <= 1
    /\ \A t \in Threads : pc[t] \in BodyPcs => lock = t

\* what alloc chose in its first step is still what the memory holds
LocalsFresh ==
    \A t \in Threads :
        pc[t] = "alloc_obj" =>
            /\ list_nodes[loc[t].cache + OFF_PARTIAL].next = loc[t].slab
            /\ slabs[loc[t].slab].free # END

NoSharedAddress ==
    \A a \in BagToSet(live) :
        /\ CopiesIn(a, live) = 1
        /\ \A b \in BagToSet(live) : a # b => a.ptr # b.ptr

\* each call's whole effect is that of running it alone on the memory it
\* found when it took the lock
AtomicEffect ==
    \A t \in Threads :
        /\ (pc[t] = "alloc_obj" /\ pc'[t] = "idle") =>
              LET r == alloc_select(snap[t], call[t].size)
                  o == alloc_object(r.st, r.cache, r.slab_node)
              IN  AllocState' = o.st /\ last'.ptr = o.obj
        /\ LargeAllocReturns(t) =>
              LET r == alloc_pages(snap[t].pa,
                                   (call[t].size + PAGE_SIZE - 1) \div PAGE_SIZE)
              IN  /\ AllocState' = [snap[t] EXCEPT !.pa = r.pa]
                  /\ last'.ptr = IF r.some THEN r.addr ELSE NULL
        /\ (pc[t] = "dealloc_body" /\ pc'[t] = "idle") =>
              AllocState' = dealloc_effect(snap[t], call[t].ptr, call[t].size).st

\* the allocator's memory changes only in a step of the thread holding the lock
OnlyHolderWrites ==
    (allocVars' # allocVars /\ page_alloc.some) =>
        /\ lock # 0
        /\ pc[lock] \in BodyPcs
        /\ pc'[lock] # pc[lock]

\* C7: with several threads calling through Locked<SlabAllocator>, each body
\* runs under the lock from entry to return: at most one thread is inside, only
\* the holder updates the cursor and the rings, every call has the effect of
\* running alone on the memory it found (so the calls are serialized in lock
\* order), and no address is held twice.
C7_CallsAreSerialized ==
    /\ [](MutualExclusion /\ LocalsFresh /\ NoSharedAddress)
    /\ [][AtomicEffect /\ OnlyHolderWrites]_vars

\* one thread is between the two steps of alloc while the other waits for the
\* lock with a dealloc of a live address
C7_Witness ==
    \E t, u \in Threads :
        /\ t # u
        /\ pc[t] = "alloc_obj"
        /\ pc[u] = "dealloc_lock"
        /\ call[u].ptr # NULL

(***************************************************************************)
(* C8                                                                      *)
(***************************************************************************)
NoOpDealloc(t) ==
    /\ pc[t] = "dealloc_body"
    /\ pc'[t] # pc[t]
    /\ (call[t].size > MAX_SLAB_SIZE \/ call[t].ptr = NULL)

\* C8: dealloc(ptr, size) with size > 2048 or ptr = null changes nothing of the
\* allocator (cursor, node_caches, caches, slabs, bufctl, inuse); the pages of a
\* large allocation lie below the cursor, which never moves back, so they are
\* never handed out again.
C8_LargeOrNullDeallocIsNoOp ==
    [][/\ \A t \in Threads :
            NoOpDealloc(t) =>
               /\ UNCHANGED allocVars
               /\ panicked' = ""
               /\ pc'[t] = "idle"
               /\ (call[t].ptr # NULL =>
                     call[t].ptr + CeilDiv(call[t].size, PAGE_SIZE) * PAGE_SIZE
                        <= page_alloc.next)
       /\ (page_alloc.some => page_alloc'.next >= page_alloc.next)
      ]_vars

\* a large allocation has been freed while a cache and a slab exist
C8_Witness ==
    /\ last.kind = "dealloc"
    /\ last.size > MAX_SLAB_SIZE
    /\ last.ptr # NULL
    /\ DOMAIN slabs # {}
    /\ Quiescent

(***************************************************************************)
(* Views of the reader used by the properties                              *)
(***************************************************************************)
\* the stepwise descent went through every segment of the path
DescentDone == walk.k > 0 /\ walk.k = Len(walk.segs)

\* ... and every segment resolved: each one before the last to a directory
\* entry (descend_step goes on only then), the last one to an entry
AllResolved == DescentDone /\ walk.last.panic = "" /\ walk.last.val.some

\* read_file returned Ok(content) to a direct caller
ReadFileOk == fs_out.op = "read_file" /\ fs_out.ok

\* the FileInfo that the path of the finished call resolves to
ResolvedFile == parse_path(fs, fs_out.path, fs_out.cur).val.val

Smaller(a, b) == IF a <= b THEN a ELSE b

\* number of bytes in the clusters of the chain that starts at cluster c and
\* is followed for n clusters at most
RECURSIVE ChainBytes(_, _)
ChainBytes(c, n) ==
    IF n = 0 THEN 0
    ELSE fs.sectors_per_cluster * fs.bytes_per_sector
         + (IF read_fat_entry(fs, c).val >= END_OF_CHAIN THEN 0
            ELSE ChainBytes(read_fat_entry(fs, c).val, n - 1))

(***************************************************************************)
(* C9: path resolution is compositional.  When every segment of a path     *)
(* resolves, one segment at a time, each from the start cluster of the     *)
(* directory entry found before it, the one call of parse_path on the      *)
(* whole path from the same starting cluster yields the FileInfo the last  *)
(* step yields.                                                            *)
(***************************************************************************)
C9_ParsePathIsStepwiseDescent ==
    (walk.whole.done /\ AllResolved) => walk.whole.res = walk.last

\* a relative path of three segments, resolved both ways from a directory
\* that is not the root, with a ".." among its segments
C9_Witness ==
    /\ walk.whole.done
    /\ AllResolved
    /\ Len(walk.segs) = 3
    /\ ~walk.abs
    /\ walk.start # fs.root_cluster
    /\ \E i \in 1..2 : walk.segs[i] = Names.DOTDOT

(***************************************************************************)
(* C10: whenever read_file returns Ok(content), the byte length of content *)
(* equals the size field of the FileInfo its path resolves to, also for a  *)
(* file whose cluster chain holds fewer bytes than size.                   *)
(***************************************************************************)
C10_ReadLengthIsSize ==
    ReadFileOk => Len(fs_out.content) = ResolvedFile.size

\* C10 as the code has it: the length of content is the size field or the
\* number of bytes in the clusters of the file's chain, whichever is smaller.
C10_ReadLengthIsSizeOrChain ==
    ReadFileOk =>
        Len(fs_out.content) =
            Smaller(ResolvedFile.size, ChainBytes(ResolvedFile.start_cluster, MaxChain))

\* read_file returned Ok for a file whose chain holds fewer bytes than size
C10_Witness ==
    /\ ReadFileOk
    /\ ResolvedFile.size > ChainBytes(ResolvedFile.start_cluster, MaxChain)
    /\ Len(fs_out.content) < ResolvedFile.size

\* the entry the path of the finished or running read_file resolves to, by
\* the parse_path of the module the call was made in
ReadTarget(caller, path, cur) ==
    IF caller = "disk_read_file" THEN disk_parse_path(fs, path, cur)
    ELSE parse_path(fs, path, cur)

(***************************************************************************)
(* C11: read_file returns "File not found" when its path resolves to no    *)
(* entry and "Not a file" when it resolves to a directory, and in neither  *)
(* case reads a data cluster or a FAT entry of the target: the loop of     *)
(* read_file is never entered for it.  Stated of read_file in              *)
(* file_system.rs and of its draft in disk.rs.                             *)
(***************************************************************************)
C11_ReadFileRejectsMissingAndDirectory ==
    /\ fs_pc \in {"read_loop", "read_done"} =>
          LET r == ReadTarget(rf.caller, rf.path, rf.cur)
          IN  r.val.some /\ ~r.val.val.is_directory
    /\ (fs_out.op \in {"read_file", "disk_read_file"} /\ fs_out.panic = "") =>
          LET r == ReadTarget(fs_out.op, fs_out.path, fs_out.cur)
          IN  /\ ~r.val.some => fs_out.err = "File not found"
              /\ (r.val.some /\ r.val.val.is_directory) => fs_out.err = "Not a file"

\* number of data clusters of the image: 2, 3, ... up to its last byte
ClustersInImage ==
    (Len(fs.disk) \div fs.bytes_per_sector - fs.data_sector) \div fs.sectors_per_cluster

(***************************************************************************)
(* C12: read_file runs to completion on every image: whatever the FAT      *)
(* holds, its loop reaches an end-of-chain value after a number of turns   *)
(* that the number of clusters of the image bounds.                        *)
(***************************************************************************)
C12_ReadLoopBoundedByClusters ==
    fs_pc \in {"read_loop", "read_done"} => rf.turns <= ClustersInImage

\* sector a ends past the last byte of the image
SectorPastEnd(a) == (a + 1) * fs.bytes_per_sector > Len(fs.disk)

\* cluster c (2 or more) has a sector that ends past the last byte
ClusterPastEnd(c) ==
    /\ c >= 2
    /\ \E i \in 0..(fs.sectors_per_cluster - 1) :
          SectorPastEnd(fs.data_sector + (c - 2) * fs.sectors_per_cluster + i)

\* a path with a first part, resolved from the current directory
Relative(path) == path_parts(path) # << >> /\ path[1] # SLASH

\* the call with outcome o lists the current directory before anything else
ReadsCurrentDir(o) ==
    \/ o.op = "ls_entries"
    \/ o.op = "ls" /\ (~o.cur.some \/ Relative(o.path))
    \/ o.op = "cd" /\ Relative(o.path)

\* a step that asks read_sector for a range past the end of the image: a
\* turn of the loop of read_file at such a cluster, read_cluster of such a
\* cluster, or ls_entries, ls or cd listing a current directory stored there
PastEndStep ==
    \/ fs_pc = "read_loop" /\ ClusterPastEnd(rf.cluster)
    \/ fs_pc = "idle" /\ fs_out'.op = "read_cluster" /\ ClusterPastEnd(fs_out'.cur.val)
    \/ fs_pc = "idle" /\ ClusterPastEnd(current_cluster) /\ ReadsCurrentDir(fs_out')

(***************************************************************************)
(* C13: a read past the end of the image is a recoverable error: the       *)
(* operation that asked for it (a turn of read_file, a listing, cd, ls)    *)
(* ends with an error outcome returned to its caller and does not abort.   *)
(***************************************************************************)
C13_PastEndReadReturnsError ==
    [][PastEndStep => (fs_pc' # "panicked" /\ fs_out'.panic = "" /\ fs_out'.err # "")]_vars

\* C13 as the code has it: read_sector panics with "Error reading
\* outbound" and the operation that asked ends with that panic; no outcome,
\* Ok or Err, reaches its caller.
C13_PastEndReadPanics ==
    [][PastEndStep => (/\ fs_pc' = "panicked"
                       /\ fs_out'.panic = "Error reading outbound"
                       /\ ~fs_out'.ok
                       /\ fs_out'.err = "")]_vars

\* cd was asked for a name in a current directory stored past the end of
\* the image, and panicked
C13_Witness ==
    /\ fs_pc = "panicked"
    /\ fs_out.op = "cd"
    /\ fs_out.panic = "Error reading outbound"
    /\ ClusterPastEnd(current_cluster)

\* list_directory_entries returned the listing of the written directory
ListingDone ==
    /\ written.kind = "dir"
    /\ fs_out.op = "list_directory_entries"
    /\ fs_out.panic = ""

\* the items written before the first end mark
BeforeEnd(items) ==
    LET ends == {i \in 1..Len(items) : items[i].t = "end"}
    IN  IF ends = {} THEN items
        ELSE SubSeq(items, 1, (CHOOSE i \in ends : \A j \in ends : i <= j) - 1)

\* the files and subdirectories written before the first end mark, in order
FilesWritten == SelectSeq(BeforeEnd(written.items), LAMBDA it : it.t = "file")

\* the 8.3 name of a file item: base, and "." and the extension if any
ShortString(item) ==
    IF item.ext = << >> THEN item.base ELSE item.base \o << DOT >> \o item.ext

HasLongName(item) == item.long # << >>

(***************************************************************************)
(* C14: long-name round trip.  A name written as a standard long-name      *)
(* sequence (highest sequence number first, first stored chunk flagged     *)
(* 0x40, 13 units a chunk, 0x0000 then 0xFFFF filling the last chunk, each *)
(* chunk carrying lfn_checksum of the short name) followed by its short    *)
(* entry is listed by list_directory_entries with exactly that name.       *)
(***************************************************************************)
C14_LfnRoundTrip ==
    ListingDone =>
        \A k \in 1..Len(FilesWritten) :
            (HasLongName(FilesWritten[k]) /\ FilesWritten[k].chk = "good") =>
                /\ k <= Len(fs_out.listing)
                /\ fs_out.listing[k].name = Utf8Of(FilesWritten[k].long)

\* a name of three chunks with a surrogate pair in it came back
C14_Witness ==
    /\ ListingDone
    /\ Len(FilesWritten) = 1
    /\ FilesWritten[1].chk = "good"
    /\ Len(FileUnits(FilesWritten[1])) > 26
    /\ \E i \in 1..Len(FilesWritten[1].long) : Len(Letters[FilesWritten[1].long[i]].units) = 2
    /\ fs_out.listing[1].name = Utf8Of(FilesWritten[1].long)

(***************************************************************************)
(* C15: when the checksum the long-name chunks recorded differs from       *)
(* lfn_checksum of the 11 name bytes of the short entry, or no chunk       *)
(* flagged 0x40 recorded one, or the UTF-16 units do not decode, the entry *)
(* is still listed, under the 8.3 name of its 11 bytes, and the listing    *)
(* reports no error.                                                       *)
(***************************************************************************)
C15_BadLongNameFallsBackToShort ==
    ListingDone =>
        \A k \in 1..Len(FilesWritten) :
            (HasLongName(FilesWritten[k]) /\ FilesWritten[k].chk # "good") =>
                /\ fs_out.ok
                /\ k <= Len(fs_out.listing)
                /\ fs_out.listing[k].name = ShortString(FilesWritten[k])

\* a file with a wrong checksum and one without a flagged chunk, both
\* listed under their 8.3 name
C15_Witness ==
    /\ ListingDone
    /\ Len(FilesWritten) = 2
    /\ FilesWritten[1].chk = "bad" /\ HasLongName(FilesWritten[1])
    /\ FilesWritten[2].chk = "none" /\ HasLongName(FilesWritten[2])
    /\ \A k \in 1..2 : fs_out.listing[k].name = ShortString(FilesWritten[k])

\* the 32-byte chunks of the cluster the listing was made of
ClusterChunks ==
    LET data == read_cluster(fs, fs_out.cur.val).val
    IN  [k \in 1..(Len(data) \div ENTRY_SIZE) |->
            SubSeq(data, (k - 1) * ENTRY_SIZE + 1, k * ENTRY_SIZE)]

\* chunk k is a short entry that is neither deleted nor a volume label and
\* lies before the first chunk that starts with 0x00
LiveShortChunk(k) ==
    /\ \A j \in 1..k : ClusterChunks[j][1] # 0
    /\ ClusterChunks[k][1] # DELETED_MARK
    /\ ClusterChunks[k][DirOffsets_Attr + 1] # ATTR_LFN
    /\ (ClusterChunks[k][DirOffsets_Attr + 1] \div ATTR_VOLUME_ID) % 2 = 0

(***************************************************************************)
(* C16: list_directory_entries(c) yields exactly one FileInfo for each     *)
(* short (non long-name) chunk of cluster c that lies before the first     *)
(* chunk starting with 0x00, does not start with 0xE5 and has attribute    *)
(* bit 0x08 clear, in the order of the chunks, and no other entry.         *)
(***************************************************************************)
C16_OneEntryPerLiveShortChunk ==
    ListingDone =>
        /\ Len(fs_out.listing) =
              Cardinality({k \in 1..Len(ClusterChunks) : LiveShortChunk(k)})
        /\ Len(fs_out.listing) = Len(FilesWritten)
        /\ \A k \in 1..Len(FilesWritten) :
              /\ fs_out.listing[k].start_cluster = FilesWritten[k].cluster
              /\ fs_out.listing[k].size = FilesWritten[k].size
              /\ fs_out.listing[k].is_directory = (FilesWritten[k].attr = ATTR_DIRECTORY)

\* a deleted entry, a file, the end mark and a file after it: one entry
C16_Witness ==
    /\ ListingDone
    /\ Len(written.items) = 4
    /\ written.items[1].t = "deleted"
    /\ written.items[2].t = "file"
    /\ written.items[3].t = "end"
    /\ written.items[4].t = "file"
    /\ Len(fs_out.listing) = 1

\* Fat32FileSystem::new has decoded the boot sector written from a geometry
Mounted == written.kind = "boot" /\ fs_pc = "idle"

(***************************************************************************)
(* C17: Fat32FileSystem::new decodes, little-endian, bytes_per_sector at   *)
(* offset 11 (2 bytes), sectors_per_cluster at 13 (1), the reserved sector *)
(* count at 14 (2), the number of FATs at 16 (1), sectors_per_fat at 36    *)
(* (4) and root_cluster at 44 (4), and sets fat_sector to the reserved     *)
(* count and data_sector to reserved + num_fats * sectors_per_fat.  For    *)
(* 512 / 1 / 32 / 2 / 32 / 2 that is fat_sector 32, data_sector 96,        *)
(* root_cluster 2.                                                         *)
(***************************************************************************)
C17_NewDecodesBootSector ==
    Mounted =>
        /\ fs.bytes_per_sector = written.bytes_per_sector
        /\ fs.sectors_per_cluster = written.sectors_per_cluster
        /\ fs.fat_sector = written.reserved_sectors_count
        /\ fs.data_sector = written.reserved_sectors_count
                            + written.num_fats * written.sectors_per_fat
        /\ fs.root_cluster = written.root_cluster
        /\ (/\ written.bytes_per_sector = 512 /\ written.sectors_per_cluster = 1
            /\ written.reserved_sectors_count = 32 /\ written.num_fats = 2
            /\ written.sectors_per_fat = 32 /\ written.root_cluster = 2)
           => (fs.fat_sector = 32 /\ fs.data_sector = 96 /\ fs.root_cluster = 2)

\* the boot sector of the example was decoded
C17_Witness ==
    /\ Mounted
    /\ written.bytes_per_sector = 512 /\ written.sectors_per_cluster = 1
    /\ written.reserved_sectors_count = 32 /\ written.num_fats = 2
    /\ written.sectors_per_fat = 32 /\ written.root_cluster = 2
    /\ fs.data_sector = 96

\* read_cluster was called for a cluster c >= 2 that lies inside the image
ReadClusterInside ==
    /\ fs_out.op = "read_cluster"
    /\ fs_out.cur.val >= 2
    /\ ~ClusterPastEnd(fs_out.cur.val)

(***************************************************************************)
(* C18: for every cluster c >= 2 inside the image, read_cluster(c) returns *)
(* exactly sectors_per_cluster * bytes_per_sector bytes, the bytes of the  *)
(* image from offset (data_sector + (c - 2) * sectors_per_cluster) *       *)
(* bytes_per_sector on, and leaves the image as it was written.            *)
(***************************************************************************)
C18_ReadClusterReturnsItsBytes ==
    ReadClusterInside =>
        LET c == fs_out.cur.val
            offset == (fs.data_sector + (c - 2) * fs.sectors_per_cluster)
                      * fs.bytes_per_sector
        IN  /\ fs_out.ok
            /\ Len(fs_out.content) = fs.sectors_per_cluster * fs.bytes_per_sector
            /\ \A i \in 1..Len(fs_out.content) : fs_out.content[i] = fs.disk[offset + i]
            /\ fs.disk = MkImage(written)

\* the last cluster of the image was read
C18_Witness ==
    /\ ReadClusterInside
    /\ ClusterPastEnd(fs_out.cur.val + 1)
    /\ fs_out.ok
    /\ Len(fs_out.content) = ImgClusterBytes

\* cd returned, Ok or Err
CdReturned == fs_out.op = "cd" /\ fs_out.panic = ""

\* what the path given to the finished cd resolves to from the directory
\* the session was in
CdTarget == parse_path(fs, fs_out.path, fs_out.cur).val

(***************************************************************************)
(* C19: when cd(path) returns, it returns the error "Entry not found" if   *)
(* the path does not resolve and "Not a directory" if it resolves to an    *)
(* entry that is no directory, current_cluster staying as it was in both   *)
(* cases; otherwise it returns Ok and current_cluster is the start cluster *)
(* of the entry resolved.                                                  *)
(***************************************************************************)
C19_CdOutcomes ==
    CdReturned =>
        IF ~CdTarget.some
        THEN ~fs_out.ok /\ fs_out.err = "Entry not found"
             /\ current_cluster = fs_out.cur.val
        ELSE IF ~CdTarget.val.is_directory
        THEN ~fs_out.ok /\ fs_out.err = "Not a directory"
             /\ current_cluster = fs_out.cur.val
        ELSE fs_out.ok /\ fs_out.err = ""
             /\ current_cluster = CdTarget.val.start_cluster

\* cd to a file, from a directory that is not the root, was refused
C19_Witness ==
    /\ CdReturned
    /\ CdTarget.some /\ ~CdTarget.val.is_directory
    /\ fs_out.err = "Not a directory"
    /\ current_cluster # fs.root_cluster
    /\ current_cluster = fs_out.cur.val

\* d names a subdirectory that ls_entries shows in the directory at cluster D
ListedSubdir(D, d) ==
    LET files == list_directory_entries(fs, D)
    IN  /\ files.panic = ""
        /\ \E k \in 1..Len(visible(files.val)) :
              visible(files.val)[k].name = d /\ visible(files.val)[k].is_directory

\* the session has just entered, by cd(d), a subdirectory d listed in the
\* directory it was in, and d is stored inside the image
EnteredListedSubdir ==
    /\ fs_pc = "idle"
    /\ fs_out.op = "cd" /\ fs_out.ok
    /\ ListedSubdir(fs_out.cur.val, fs_out.path)
    /\ ~ClusterPastEnd(current_cluster)

\* the step is cd("..")
CdDotDotStep == fs_out'.op = "cd" /\ fs_out'.path = Names.DOTDOT /\ fs_out' # fs_out

CatReturned == fs_out.op = "cat" /\ fs_out.panic = ""

\* the entry the path of the finished cat resolves to: cat calls
\* read_file(path, None), which resolves from the root directory
CatTarget == parse_path(fs, fs_out.path, None).val

\* the bytes of the clusters of the chain that starts at cluster c, followed
\* for n clusters at most
RECURSIVE ChainData(_, _)
ChainData(c, n) ==
    IF n = 0 THEN << >>
    ELSE read_cluster(fs, c).val
         \o (IF read_fat_entry(fs, c).val >= END_OF_CHAIN THEN << >>
             ELSE ChainData(read_fat_entry(fs, c).val, n - 1))

\* the bytes read_file decodes for the file f
FileBytes(f) == truncate(ChainData(f.start_cluster, MaxChain), f.size)

\* C21 as stated: cat hands the error of read_file to its caller, and
\* returns Ok only when the file body was read.
C21_CatReturnsReadError ==
    CatReturned =>
        /\ ~CatTarget.some => (~fs_out.ok /\ fs_out.err = "File not found")
        /\ (CatTarget.some /\ CatTarget.val.is_directory) =>
              (~fs_out.ok /\ fs_out.err = "Not a file")
        /\ fs_out.ok => (CatTarget.some /\ ~CatTarget.val.is_directory)

(***************************************************************************)
(* C21: cat carries the error of read_file to its output unchanged.  When  *)
(* read_file fails (file not found, not a file, invalid UTF-8) cat prints  *)
(* the message of that error in place of the body and returns Ok; it       *)
(* returns no error of its own, and prints the body when the file was      *)
(* read.                                                                   *)
(***************************************************************************)
C21_CatPrintsReadError ==
    CatReturned =>
        /\ fs_out.ok /\ fs_out.err = ""
        /\ ~CatTarget.some => (fs_out.msg = "File not found" /\ fs_out.content = << >>)
        /\ (CatTarget.some /\ CatTarget.val.is_directory) =>
              (fs_out.msg = "Not a file" /\ fs_out.content = << >>)
        /\ (CatTarget.some /\ ~CatTarget.val.is_directory) =>
              IF utf8_valid(FileBytes(CatTarget.val))
              THEN fs_out.msg = "" /\ fs_out.content = FileBytes(CatTarget.val)
              ELSE fs_out.msg = "Invalid UTF-8 content" /\ fs_out.content = << >>

\* cat returned after read_file failed on a file whose bytes are no UTF-8
C21_Witness ==
    /\ CatReturned
    /\ CatTarget.some
    /\ ~CatTarget.val.is_directory
    /\ fs_out.msg = "Invalid UTF-8 content"

\* a step that is a call of cd
CdStep == fs_pc = "idle" /\ fs_out'.op = "cd"

(***************************************************************************)
(* C22: only cd changes the state of a session.  A step of ls, ls_entries, *)
(* cat or of the reader leaves current_cluster as it was, whether it       *)
(* succeeds, fails or panics, and no step, one of cd included, changes a   *)
(* field of the Fat32FileSystem or a byte of its disk image.               *)
(***************************************************************************)
C22_OnlyCdChangesSession ==
    [][ /\ fs' = fs
        /\ ~CdStep => current_cluster' = current_cluster ]_vars

\* after a cd out of the root, ls has listed a directory that is not the
\* current one and the session is where it was
C22_Witness ==
    /\ fs_out.op = "ls"
    /\ fs_out.ok
    /\ fs_out.cur.some
    /\ current_cluster # fs.root_cluster
    /\ parse_path(fs, fs_out.path, Some(current_cluster)).val.val.start_cluster
          # current_cluster

(***************************************************************************)
(* Views of the slabs used by the properties                               *)
(***************************************************************************)
\* the slot indexes met from index i on, following the bufctl table
RECURSIVE FreeChainFrom(_, _, _)
FreeChainFrom(table, i, fuel) ==
    IF i = END \/ fuel = 0 \/ i \notin DOMAIN table THEN << >>
    ELSE << i >> \o FreeChainFrom(table, table[i], fuel - 1)

\* the chain from index i on reaches END inside the table
RECURSIVE ChainEndsAtEND(_, _, _)
ChainEndsAtEND(table, i, fuel) ==
    IF i = END THEN TRUE
    ELSE IF fuel = 0 \/ i \notin DOMAIN table THEN FALSE
    ELSE ChainEndsAtEND(table, table[i], fuel - 1)

\* the free chain of slab s of a cache with num objects a slab
FreeChain(s, num) == FreeChainFrom(bufctl[s], slabs[s].free, num + 1)

\* no thread is inside a call: live is what the callers hold
AllIdle == \A t \in Threads : pc[t] = "idle"

\* the slot indexes of slab s (of cache c) that callers hold
HeldSlots(c, s) ==
    {i \in 0..(caches[c].num - 1) :
        \E a \in BagToSet(live) : a.ptr = slabs[s].s_mem + i * caches[c].obj_size}

FreeChainWellFormed(c, s) ==
    LET num == caches[c].num
        chain == FreeChain(s, num)
    IN  /\ ChainEndsAtEND(bufctl[s], slabs[s].free, num + 1)
        /\ Len(chain) = num - slabs[s].inuse
        /\ \A i, j \in 1..Len(chain) : i # j => chain[i] # chain[j]
        /\ \A i \in 1..Len(chain) : chain[i] \in 0..(num - 1)
        /\ 0 <= slabs[s].inuse /\ slabs[s].inuse <= num
        /\ AllIdle => {chain[i] : i \in 1..Len(chain)} = (0..(num - 1)) \ HeldSlots(c, s)

\* a slab that cache_grow has just written
FreshSlab(c, s) ==
    /\ slabs'[s].free = 0
    /\ slabs'[s].inuse = 0
    /\ bufctl'[s] = [i \in 0..(caches'[c].num - 1) |->
                        IF i = caches'[c].num - 1 THEN END ELSE i + 1]

(***************************************************************************)
(* C23: in every slab the chain that starts at free and goes through the   *)
(* bufctl array ends at END, has num - inuse entries, and meets every slot *)
(* index that no caller holds exactly once and none that a caller holds;   *)
(* so 0 <= inuse <= num.  A slab that cache_grow has just made has the     *)
(* chain 0, 1, ..., num - 1, END and inuse = 0.                            *)
(***************************************************************************)
C23_FreeChainIsTheFreeSlots ==
    /\ [](\A c \in CacheSet : \A s \in SlabsOfCache(c) : FreeChainWellFormed(c, s))
    /\ [][\A c \in CacheSet' : \A s \in (DOMAIN slabs') \ (DOMAIN slabs) :
             s \in SlabsOfCache(c)' => FreshSlab(c, s)]_vars

\* between calls, a slab with objects out whose free chain goes back to a
\* lower index: slots have been freed in another order than they were taken
C23_Witness ==
    /\ AllIdle
    /\ \E c \in CacheSet : \E s \in SlabsOfCache(c) :
          /\ 0 < slabs[s].inuse
          /\ slabs[s].free # END
          /\ bufctl[s][slabs[s].free] # END
          /\ bufctl[s][slabs[s].free] < slabs[s].free

\* the three list heads of every cache
ListHeads == {c + off : c \in CacheSet, off \in {OFF_FULL, OFF_PARTIAL, OFF_FREE}}

\* following next from node n comes to head
RECURSIVE ReachesHead(_, _, _)
ReachesHead(n, head, fuel) ==
    IF n = head THEN TRUE
    ELSE IF fuel = 0 \/ n \notin DOMAIN list_nodes THEN FALSE
    ELSE ReachesHead(list_nodes[n].next, head, fuel - 1)

RingWellFormed(head) ==
    /\ ReachesHead(list_nodes[head].next, head, Cardinality(DOMAIN list_nodes))
    /\ \A n \in Ring(head) \cup {head} :
          /\ list_nodes[n].next \in DOMAIN list_nodes
          /\ list_nodes[n].prev \in DOMAIN list_nodes
          /\ list_nodes[list_nodes[n].next].prev = n
          /\ list_nodes[list_nodes[n].prev].next = n

(***************************************************************************)
(* C24: in every state that alloc and dealloc leave, each of the three     *)
(* list heads of every cache is a circular doubly-linked ring (next.prev   *)
(* and prev.next of every node are the node, and next from the head comes  *)
(* back to the head), and every slab made by cache_grow is on exactly one  *)
(* ring, of the cache that made it: no step drops a slab, puts it on two   *)
(* rings or moves it to another cache.                                     *)
(***************************************************************************)
C24_RingsHoldEverySlabOnce ==
    /\ [](/\ \A h \in ListHeads : RingWellFormed(h)
          /\ \A s \in DOMAIN slabs : Cardinality({h \in ListHeads : s \in Ring(h)}) = 1)
    /\ [][/\ DOMAIN slabs \subseteq DOMAIN slabs'
          /\ CacheSet \subseteq CacheSet'
          /\ \A c \in CacheSet : \A s \in SlabsOfCache(c) : s \in SlabsOfCache(c)'
         ]_vars

\* after a dealloc, two caches hold a slab each, one of them on slabs_full
C24_Witness ==
    /\ AllIdle
    /\ last.kind = "dealloc"
    /\ Cardinality(CacheSet) = 2
    /\ \A c \in CacheSet : SlabsOfCache(c) # {}
    /\ \E c \in CacheSet : Ring(c + OFF_FULL) # {}

\* the least multiple of n that is a or more
align_up(a, n) == CHOOSE x \in a..(a + n - 1) : x % n = 0

\* the small allocations the callers hold
SmallLive == {a \in BagToSet(live) : a.size <= MAX_SLAB_SIZE}

(***************************************************************************)
(* C25: in every slab, of every class, num is (4096 - sizeof(Slab)) /      *)
(* (obj_size + 4), s_mem is page + sizeof(Slab) + 4 * num rounded up to a  *)
(* multiple of 8, and s_mem + num * obj_size <= page + 4096.  Every object *)
(* alloc returns lies inside the page of its slab, after the header and    *)
(* the bufctl array, so the page address of the pointer, which dealloc     *)
(* computes, is the header of the slab that owns it.                       *)
(***************************************************************************)
C25_ObjectsInsideTheirPage ==
    /\ \A c \in CacheSet : \A s \in SlabsOfCache(c) :
          LET num == caches[c].num
              obj_size == caches[c].obj_size
          IN  /\ s % PAGE_SIZE = 0
              /\ num = (PAGE_SIZE - SIZEOF_SLAB) \div (obj_size + SIZEOF_BUFCTL)
              /\ slabs[s].s_mem = align_up(s + SIZEOF_SLAB + SIZEOF_BUFCTL * num, ALIGNOF_USIZE)
              /\ slabs[s].s_mem + num * obj_size <= s + PAGE_SIZE
    /\ \A a \in SmallLive :
          LET s == a.ptr - (a.ptr % PAGE_SIZE)
              c == node_caches[CacheIndex(a.size)]
          IN  /\ s \in SlabsOfCache(c)
              /\ a.ptr >= s + SIZEOF_SLAB + SIZEOF_BUFCTL * caches[c].num
              /\ a.ptr + caches[c].obj_size <= s + PAGE_SIZE

\* the first object is held of a slab of the class whose objects end exactly
\* at the end of the page (the 8-byte class), and a second class has its cache
C25_Witness ==
    /\ AllIdle
    /\ Cardinality(CacheSet) = 2
    /\ \E a \in SmallLive :
          LET s == a.ptr - (a.ptr % PAGE_SIZE)
              c == node_caches[CacheIndex(a.size)]
          IN  /\ slabs[s].s_mem + caches[c].num * caches[c].obj_size = s + PAGE_SIZE
              /\ slabs[s].inuse = 1
              /\ a.ptr = slabs[s].s_mem

(***************************************************************************)
(* C26: every address alloc returns for a small request is a multiple of   *)
(* the object size of its class, in all nine classes: s_mem of every slab  *)
(* is a multiple of obj_size, and so is every slot s_mem + i * obj_size.   *)
(***************************************************************************)
C26_ObjectsAlignedToTheirSize ==
    /\ \A c \in CacheSet : \A s \in SlabsOfCache(c) :
          slabs[s].s_mem % caches[c].obj_size = 0
    /\ \A a \in SmallLive :
          a.ptr % caches[node_caches[CacheIndex(a.size)]].obj_size = 0

(***************************************************************************)
(* C27: the cache installed at node_caches[idx] has obj_size = 8 * 2^idx,  *)
(* num = (4096 - sizeof(Slab)) / (obj_size + sizeof(BufCtl)) and the name  *)
(* CACHE_NAMES[idx], whatever request size made it; a class gets its cache *)
(* once, and its obj_size and num never change afterwards.                 *)
(***************************************************************************)
C27_CachesMatchTheirClass ==
    /\ [](\A idx \in 0..(MAX_CLASSES - 1) :
             node_caches[idx] # NULL =>
                LET c == caches[node_caches[idx]]
                IN  /\ c.obj_size = 8 * 2^idx
                    /\ c.num = (PAGE_SIZE - SIZEOF_SLAB) \div (c.obj_size + SIZEOF_BUFCTL)
                    /\ c.name = CACHE_NAMES[idx + 1])
    /\ [][\A idx \in 0..(MAX_CLASSES - 1) :
             node_caches[idx] # NULL =>
                /\ node_caches'[idx] = node_caches[idx]
                /\ caches'[node_caches[idx]] = caches[node_caches[idx]]]_vars

\* the page runs alloc_pages has returned that are known to be in use: the
\* page of every cache, the page of every slab, the pages of every large
\* allocation a caller holds
PageRuns ==
    {[lo |-> c, hi |-> c + PAGE_SIZE] : c \in CacheSet}
    \cup {[lo |-> s, hi |-> s + PAGE_SIZE] : s \in DOMAIN slabs}
    \cup {[lo |-> a.ptr, hi |-> a.ptr + CeilDiv(a.size, PAGE_SIZE) * PAGE_SIZE] :
             a \in BagToSet(live) \ SmallLive}

(***************************************************************************)
(* C28: after init with a page-aligned heap, heap_start <= next <= end in  *)
(* every state, next is a multiple of PAGE_SIZE and never decreases, and   *)
(* the page runs alloc_pages has returned (to caches, slabs and large      *)
(* allocations) are pairwise disjoint and lie inside [heap_start, end):    *)
(* each run returned starts at the cursor, above every run returned        *)
(* before it.                                                              *)
(***************************************************************************)
C28_PageBumpInvariant ==
    /\ [](page_alloc.some =>
            /\ HeapStartPage * PAGE_SIZE <= page_alloc.next
            /\ page_alloc.next <= page_alloc.end
            /\ page_alloc.next % PAGE_SIZE = 0
            /\ \A r \in PageRuns :
                  /\ HeapStartPage * PAGE_SIZE <= r.lo
                  /\ r.lo < r.hi
                  /\ r.hi <= page_alloc.next
                  /\ \A q \in PageRuns : q # r => (q.hi <= r.lo \/ r.hi <= q.lo)
            /\ Cardinality(PageRuns)
                  = Cardinality(CacheSet) + Cardinality(DOMAIN slabs)
                    + BagCardinality(live) - Cardinality(SmallLive))
    /\ [][page_alloc.some =>
            /\ page_alloc'.next >= page_alloc.next
            /\ page_alloc'.end = page_alloc.end
            /\ \A r \in PageRuns' \ PageRuns :
                  page_alloc.next <= r.lo /\ r.hi <= page_alloc'.next]_vars

\* the heap is used up to its last page by a cache, a slab and a large
\* allocation
C28_Witness ==
    /\ page_alloc.some
    /\ page_alloc.next = page_alloc.end
    /\ CacheSet # {}
    /\ DOMAIN slabs # {}
    /\ BagToSet(live) \ SmallLive # {}

(***************************************************************************)
(* C29: a small alloc on a class that has its cache takes a page from the  *)
(* PageBump only when slabs_partial and slabs_free of the class are both   *)
(* empty.  With a partial slab it serves from the first one and moves      *)
(* nothing; else with a free slab it serves from the first one, which it   *)
(* moves to slabs_partial; in both cases the cursor stays where it was.    *)
(***************************************************************************)
C29_GrowsOnlyWithoutPartialAndFree ==
    [][\A t \in Threads :
         (SmallAllocSelects(t) /\ ~NeedsCache(call[t].size)) =>
            LET c == node_caches[CacheIndex(call[t].size)]
                partial == list_nodes[c + OFF_PARTIAL].next
                free == list_nodes[c + OFF_FREE].next
            IN  IF ~list_empty(list_nodes, c + OFF_PARTIAL)
                THEN /\ UNCHANGED allocVars
                     /\ loc'[t] = [cache |-> c, slab |-> partial]
                ELSE IF ~list_empty(list_nodes, c + OFF_FREE)
                THEN /\ UNCHANGED << page_alloc, node_caches, caches, slabs, bufctl >>
                     /\ loc'[t] = [cache |-> c, slab |-> free]
                     /\ list_nodes'[c + OFF_PARTIAL].next = free
                     /\ Ring(c + OFF_FREE)' = Ring(c + OFF_FREE) \ {free}
                ELSE \/ panicked' = "OOM Slab" /\ UNCHANGED allocVars
                     \/ /\ page_alloc'.next = page_alloc.next + PAGE_SIZE
                        /\ loc'[t] = [cache |-> c, slab |-> page_alloc.next]
                        /\ DOMAIN slabs' = DOMAIN slabs \cup {page_alloc.next}
      ]_vars

\* with pages left, alloc has chosen a slab that was used and freed before
\* (its free chain no longer starts at slot 0) rather than a new page
C29_Witness ==
    \E t \in Threads :
        /\ pc[t] = "alloc_obj"
        /\ PagesLeft > 0
        /\ slabs[loc[t].slab].inuse = 0
        /\ slabs[loc[t].slab].free # 0

\* thread t is inside a call of alloc or dealloc
InCall(t) == pc[t] \in {"alloc_lock", "dealloc_lock"} \cup BodyPcs

\* the lock is held by a thread inside a body and by no other, and a thread
\* inside a call can take a step unless it is waiting for the lock
LockDiscipline ==
    /\ \A t \in Threads : panicked = "" => ((lock = t) <=> (pc[t] \in BodyPcs))
    /\ \A t \in Threads :
          (panicked = "" /\ pc[t] \in BodyPcs) => ENABLED BodyStep(t)
    /\ \A t \in Threads :
          (panicked = "" /\ pc[t] \in {"alloc_lock", "dealloc_lock"} /\ lock = 0)
             => ENABLED LockStep(t)

\* the lock is taken only by a thread that does not hold it, at the entry of
\* its call, and is free after every return, the early ones included
LockSteps ==
    \A t \in Threads :
        /\ (lock' = t /\ lock # t) => (pc[t] \in {"alloc_lock", "dealloc_lock"} /\ lock = 0)
        /\ (InCall(t) /\ pc'[t] = "idle") => (lock = t /\ lock' = 0)

ReaderOps == {"read_file", "cat", "ls", "cd", "ls_entries"}

(***************************************************************************)
(* C31: on an image with root_cluster >= 2, every read_cluster call issued *)
(* by read_file, parse_path, find_parent_cluster, ls and cd passes a       *)
(* cluster number >= 2, so cluster_id - 2 never underflows: the cluster    *)
(* the loop of read_file is about to read is >= 2 (empty files stored with *)
(* start cluster 0 and chains whose next entry is below 2 included), the   *)
(* current directory is >= 2, and no operation ends in the overflow panic  *)
(* of the subtraction.                                                     *)
(***************************************************************************)
C31_ReadClusterArgsAtLeastTwo ==
    fs.root_cluster >= 2 =>
       /\ (fs_pc = "read_loop" /\ rf.caller \in ReaderOps) => rf.cluster >= 2
       /\ fs_pc \in {"idle", "read_loop", "read_done"} => current_cluster >= 2
       /\ fs_out.op \in ReaderOps => fs_out.panic # "attempt to subtract with overflow"

\* the first byte of FAT entry c in the image, counted from 0
FatEntryOffset(c) == fs.fat_sector * fs.bytes_per_sector + 4 * c

\* the four bytes of entry c lie inside the image
FatEntryInside(c) == c >= 0 /\ FatEntryOffset(c) + 4 <= Len(fs.disk)

\* the little-endian u32 at byte offset o of the image without its four
\* highest bits (the high half of its fourth byte)
MaskedU32At(o) ==
    fs.disk[o + 1] + 256 * fs.disk[o + 2] + 65536 * fs.disk[o + 3]
    + 16777216 * (fs.disk[o + 4] % 16)

\* read_fat_entry was called on its own and has ended
FatEntryRead == fs_out.op = "read_fat_entry"

(***************************************************************************)
(* C32: for every c whose entry lies inside the image, read_fat_entry(c),  *)
(* which reads sector fat_sector + (4c div bytes_per_sector) and indexes   *)
(* it at 4c mod bytes_per_sector, returns the little-endian u32 at byte    *)
(* offset fat_sector * bytes_per_sector + 4c of the image masked with      *)
(* 0x0FFFFFFF; the result is at most 0x0FFFFFFF.                           *)
(***************************************************************************)
C32_FatEntryIsMaskedU32AtOffset ==
    (FatEntryRead /\ FatEntryInside(fs_out.cur.val)) =>
       /\ fs_out.ok
       /\ fs_out.panic = ""
       /\ fs_out.content = << MaskedU32At(FatEntryOffset(fs_out.cur.val)) >>
       /\ fs_out.content[1] >= 0
       /\ fs_out.content[1] <= 268435455

\* an entry of the second sector of the FAT whose stored fourth byte has
\* high bits set was read: the value returned has them cleared
C32_Witness ==
    /\ FatEntryRead
    /\ fs_out.ok
    /\ 4 * fs_out.cur.val >= fs.bytes_per_sector
    /\ fs.disk[FatEntryOffset(fs_out.cur.val) + 4] >= 16
    /\ fs_out.content[1] >= END_OF_CHAIN

\* the directories of the image that are no root and lie inside it
SubdirClusters == {3, written.startSub} \cap 2..(ClustersInImage + 1)

\* the cluster written into the ".." entry of the directory at cluster c
DotDotWritten(c) == IF c = 3 THEN written.dotdot ELSE 3

\* the parent of the directory at cluster c: the cluster its ".." stores,
\* or the root when it stores 0
ParentOf(c) == IF DotDotWritten(c) = 0 THEN fs.root_cluster ELSE DotDotWritten(c)

\* parse_path of ".." alone and of "../DOCS", asked in the directory at c
DotDotFrom(c) == parse_path(fs, Names.DOTDOT, Some(c))
DotDotThenDocsFrom(c) == parse_path(fs, JoinPath(<< Names.DOTDOT, Names.DOCS >>, FALSE), Some(c))

(***************************************************************************)
(* C33: in parse_path a ".." segment moves to the cluster stored in the    *)
(* ".." entry of the directory it is in, the root when 0 is stored; a      *)
(* final ".." yields a directory FileInfo whose start cluster is that      *)
(* parent, a ".." before other segments resolves them in the parent; in    *)
(* the root the resolution yields none, so cd("..") in the root returns    *)
(* "Entry not found" and the session stays in the root, and elsewhere      *)
(* cd("..") moves the session to the parent.                               *)
(***************************************************************************)
C33_DotDotIsStoredParent ==
    /\ \A c \in SubdirClusters :
          /\ DotDotFrom(c) = Ret(Some(FileInfo_new(Names.DOTDOT, TRUE, 0, ParentOf(c))))
          /\ DotDotThenDocsFrom(c) = parse_path(fs, Names.DOCS, Some(ParentOf(c)))
    /\ DotDotFrom(fs.root_cluster) = Ret(None)
    /\ DotDotThenDocsFrom(fs.root_cluster) = Ret(None)
    /\ (CdReturned /\ fs_out.path = Names.DOTDOT) =>
          IF fs_out.cur.val = fs.root_cluster
          THEN ~fs_out.ok /\ fs_out.err = "Entry not found"
               /\ current_cluster = fs.root_cluster
          ELSE fs_out.ok /\ current_cluster = ParentOf(fs_out.cur.val)

\* cd("..") was called in DOCS, whose ".." stores 0, and the session is in
\* the root
C33_Witness ==
    /\ CdReturned
    /\ fs_out.path = Names.DOTDOT
    /\ fs_out.cur.val = 3
    /\ DotDotWritten(3) = 0
    /\ fs_out.ok
    /\ current_cluster = fs.root_cluster

\* the bytes of chunks j..k of the cluster the listing was made of
ChunkBytes(j, k) ==
    SubSeq(read_cluster(fs, fs_out.cur.val).val, (j - 1) * ENTRY_SIZE + 1, k * ENTRY_SIZE)

\* the locals of list_directory_entries after its loop went over chunks
\* 1..k of the cluster
LoopAfter(k) == list_directory_scan(ChunkBytes(1, k), 0, ListStart)

\* the loop reaches chunk k: no chunk up to k starts with 0x00
LoopReaches(k) == \A j \in 1..k : ClusterChunks[j][1] # 0

\* chunk k is a long-name chunk that is not deleted
LfnChunk(k) ==
    /\ ClusterChunks[k][1] # DELETED_MARK
    /\ ClusterChunks[k][DirOffsets_Attr + 1] = ATTR_LFN

\* chunk k is a long-name chunk flagged 0x40
FlaggedChunk(k) == LfnChunk(k) /\ (ClusterChunks[k][LfnOffsets_Ord + 1] \div 64) % 2 = 1

\* the first chunk the name emitted at short entry k may depend on: the
\* last flagged chunk among the long-name chunks that directly precede k,
\* or k itself when there is none
NameFrom(k) ==
    LET flagged == {j \in 1..(k - 1) : FlaggedChunk(j) /\ \A i \in j..(k - 1) : LfnChunk(i)}
    IN  IF flagged = {} THEN k ELSE CHOOSE j \in flagged : \A i \in flagged : i <= j

(***************************************************************************)
(* C34: long-name state never leaks across entries.  In the loop of        *)
(* list_directory_entries the fragment list is empty and expected_checksum *)
(* is None right after every deleted chunk, every volume-label chunk and   *)
(* every emitted short entry; right after a chunk flagged 0x40 the         *)
(* fragment list holds that chunk alone, with its checksum recorded; and   *)
(* the entry emitted at a short chunk is the one the loop emits when run   *)
(* on that chunk and the long-name chunks from the last flagged one that   *)
(* directly precede it, and on nothing else.                               *)
(***************************************************************************)
C34_LfnStateDoesNotLeak ==
    ListingDone =>
       /\ fs_out.listing = LoopAfter(Len(ClusterChunks)).results
       /\ \A k \in 1..Len(ClusterChunks) :
             LoopReaches(k) =>
                /\ ~LfnChunk(k) =>
                      /\ LoopAfter(k).lfn_fragments = << >>
                      /\ LoopAfter(k).expected_checksum = None
                /\ FlaggedChunk(k) =>
                      /\ Len(LoopAfter(k).lfn_fragments) = 1
                      /\ LoopAfter(k).lfn_fragments
                            = process_lfn_entry(ClusterChunks[k], << >>, None).lfn_fragments
                      /\ LoopAfter(k).expected_checksum
                            = Some(ClusterChunks[k][LfnOffsets_ChkSum + 1])
                /\ LiveShortChunk(k) =>
                      /\ LoopAfter(k).results # << >>
                      /\ << LoopAfter(k).results[Len(LoopAfter(k).results)] >>
                            = list_directory_scan(ChunkBytes(NameFrom(k), k), 0,
                                                  ListStart).results

\* a chunk flagged 0x40 that carries the checksum of A.TXT, then a deleted
\* entry, then A.TXT: the file is listed under its 8.3 name
C34_Witness ==
    /\ ListingDone
    /\ Len(written.items) = 3
    /\ written.items[1].t = "stray"
    /\ written.items[2].t = "deleted"
    /\ written.items[3].t = "file" /\ ~HasLongName(written.items[3])
    /\ written.items[3].base = Names.A
    /\ Len(fs_out.listing) = 1
    /\ fs_out.listing[1].name = Names.A_TXT

\* assemble_lfn was applied to the fragments written
Assembled == written.kind = "frags" /\ fs_out.op = "assemble_lfn"

\* the units of the fragments written, concatenated by ascending seq
RECURSIVE UnitsFromSeq(_)
UnitsFromSeq(q) ==
    IF q > MaxFrags THEN << >>
    ELSE LET at == {i \in 1..Len(written.frags) : written.frags[i][1] = q}
         IN  (IF at = {} THEN << >> ELSE written.frags[CHOOSE i \in at : TRUE][2])
             \o UnitsFromSeq(q + 1)

\* the units of s before its first 0x0000, without those that are 0xFFFF
NameUnits(s) ==
    LET nuls == {i \in 1..Len(s) : s[i] = 0}
        cut == IF nuls = {} THEN Len(s) ELSE (CHOOSE i \in nuls : \A j \in nuls : i <= j) - 1
    IN  SelectSeq(SubSeq(s, 1, cut), LAMBDA u : u # 65535)

(***************************************************************************)
(* C35: assemble_lfn builds the long name from the fragments sorted by     *)
(* ascending seq, taking the UTF-16 units of their concatenation up to but *)
(* not including the first 0x0000 and skipping 0xFFFF units: the name is   *)
(* the UTF-8 of exactly those units, so no unit after the first 0x0000 of  *)
(* the concatenation, units of higher-seq fragments included, is in it.    *)
(***************************************************************************)
C35_NameStopsAtFirstNul ==
    Assembled =>
       /\ fs_out.ok
       /\ fs_out.content = from_utf16(NameUnits(UnitsFromSeq(1))).val

\* what the path of the finished cat resolves to from the directory the
\* session is in
CatTargetInSession == parse_path(fs, fs_out.path, Some(current_cluster))

(***************************************************************************)
(* C36: cat resolves a relative path against the current directory of the  *)
(* session, as cd and ls do: after a successful cd(d), cat("f") reads the  *)
(* entry that parse_path("f", current_cluster) resolves (the entry named f *)
(* inside d), not an entry of the root: it prints the bytes of that file,  *)
(* and "File not found" only when that resolution finds nothing.           *)
(***************************************************************************)
C36_CatResolvesInCurrentDirectory ==
    (CatReturned /\ CatTargetInSession.panic = "") =>
        LET target == CatTargetInSession.val
        IN  /\ ~target.some => fs_out.msg = "File not found"
            /\ (target.some /\ target.val.is_directory) => fs_out.msg = "Not a file"
            /\ (target.some /\ ~target.val.is_directory) =>
                  IF utf8_valid(FileBytes(target.val))
                  THEN fs_out.msg = "" /\ fs_out.content = FileBytes(target.val)
                  ELSE fs_out.msg = "Invalid UTF-8 content"

\* the paths that name a directory without a final named segment
BarePaths == { << SLASH >>, Names.DOT }

(***************************************************************************)
(* C37: a path that names a directory without a final named segment        *)
(* resolves to that directory: from any current directory, cd("/")         *)
(* succeeds and makes the root the current directory, and cd(".") succeeds *)
(* and leaves the current directory as it was.                             *)
(***************************************************************************)
C37_BarePathsResolveToTheirDirectory ==
    (CdReturned /\ fs_out.path \in BarePaths) =>
        /\ fs_out.ok
        /\ current_cluster =
              IF fs_out.path = << SLASH >> THEN fs.root_cluster ELSE fs_out.cur.val

\* the start clusters of the directories named (by an entry other than "."
\* and "..") in the directory at cluster c; none when c lies past the image
NamedSubdirs(c) ==
    IF ClusterPastEnd(c) THEN {}
    ELSE With(list_directory_entries(fs, c), LAMBDA files :
         IF files.panic # "" THEN {}
         ELSE { files.val[k].start_cluster :
                  k \in { j \in DOMAIN files.val :
                            /\ files.val[j].is_directory
                            /\ files.val[j].name \notin { Names.DOT, Names.DOTDOT } } })

\* the clusters of S and of every directory reachable from them by names
RECURSIVE DirClosure(_)
DirClosure(S) ==
    With(S \cup UNION { NamedSubdirs(c) : c \in S }, LAMBDA T :
         IF T = S THEN S ELSE DirClosure(T))

\* the root and the start cluster of every directory reachable from it
DirsFromRoot == DirClosure({ fs.root_cluster })

DeallocStep(t) == pc[t] = "dealloc_body" /\ pc'[t] # "dealloc_body"

\* the call of thread t frees an object of a small class
SmallDealloc(t) == call[t].ptr # NULL /\ call[t].size <= MAX_SLAB_SIZE

(***************************************************************************)
(* C39: dealloc(p, s) of a live small allocation never takes a page from   *)
(* the PageBump and never installs a cache: its get_or_create_cache(s)     *)
(* finds the cache the matching alloc(s) used, without a panic; the        *)
(* PageBump cursor and node_caches are unchanged by every dealloc, the     *)
(* early returns for a large size or a null pointer included.              *)
(***************************************************************************)
C39_DeallocKeepsCursorAndCaches ==
    [][\A t \in Threads : DeallocStep(t) =>
          /\ page_alloc' = page_alloc
          /\ node_caches' = node_caches
          /\ DOMAIN caches' = DOMAIN caches
          /\ SmallDealloc(t) =>
                /\ node_caches[CacheIndex(call[t].size)] # NULL
                /\ get_or_create_cache(AllocState, call[t].size)
                      = [panic |-> "", st |-> AllocState,
                         cache |-> node_caches[CacheIndex(call[t].size)]]
                /\ panicked' = ""]_vars

\* an object of a size that is no power of two has been freed while the
\* class of that size rounded up has no cache
C39_Witness ==
    /\ last.kind = "dealloc"
    /\ last.ptr # NULL
    /\ last.size <= MAX_SLAB_SIZE
    /\ next_power_of_two(last.size) # last.size
    /\ node_caches[CacheIndex(last.size)] # NULL
    /\ node_caches[CacheIndex(next_power_of_two(last.size))] = NULL
    /\ panicked = ""
====
